---------------------------- MODULE Spec2Model ----------------------------
(***************************************************************************)
(* Ingestion pipeline of the NCAA backend: the schedule synchronizer       *)
(* (src/src/jobs/schedule-sync.ts), the final-game processor with its      *)
(* rollup aggregation (src/unnamed/part_005) and the parts of the ESPN     *)
(* client they call (src/src/lib/espn.ts), over an upstream whose events   *)
(* change state between and during runs.                                   *)
(***************************************************************************)
EXTENDS Integers, Sequences, FiniteSets, TLC

(***************************************************************************)
(* Bounds of the model.                                                    *)
(***************************************************************************)
\* calendar days a sync range can span (day 1 .. NumDays)
NumDays == 2
\* failed fetches and failed storage calls injected in one behaviour
MaxFaults == 1
\* games a team's rollup counts when rollups are drawn rather than computed
MaxGames == 2

Days == 1..NumDays

Leagues == <<"MENS", "WOMENS">>
LeagueSet == {"MENS", "WOMENS"}

\* JS null / undefined of an optional value: the empty sequence; a present
\* value v is <<v>>
Null == <<>>
Some(v) == <<v>>

(***************************************************************************)
(* The upstream provider.  The calendar: day 1 is 30 September 2025, the   *)
(* later days are in October 2025, so that a range crosses the month the   *)
(* season derivation cuts at.                                              *)
(***************************************************************************)
DateOfDay(d) == [year |-> 2025, month |-> IF d <= 1 THEN 9 ELSE 10, day |-> d]

Events == {"E1", "E2", "E3"}

\* what the provider lists: on day 1 two men's games between the same two
\* teams (home and away swapped), on day 2 a women's game between the teams
\* the provider gives the same ids
EventInfo(e) ==
    IF e = "E1" THEN [league |-> "MENS", day |-> 1, home |-> "T1", away |-> "T2"]
    ELSE IF e = "E2" THEN [league |-> "MENS", day |-> 1, home |-> "T2", away |-> "T1"]
    ELSE [league |-> "WOMENS", day |-> 2, home |-> "T1", away |-> "T2"]

Scoreboard(league, d) ==
    IF league = "MENS" /\ d = 1 THEN <<"E1", "E2">>
    ELSE IF league = "WOMENS" /\ d = 2 THEN <<"E3">>
    ELSE <<>>

\* the states an upstream event is in: not started, finished, or listed
\* without its away competitor
UpStates == {"pre", "post", "bad"}

\* the states the provider serves an event in: the women's game stays
\* scheduled throughout
EventStates(e) == IF e = "E3" THEN {"pre"} ELSE UpStates

\* ESPNEvent as the scoreboard endpoint returns it for event e in state st
RawCompetitor(side, teamId, score) ==
    [homeAway |-> side, teamId |-> teamId, displayName |-> teamId, score |-> score]

RawEvent(e, st) ==
    LET info == EventInfo(e)
        h == RawCompetitor("home", info.home, IF st = "post" THEN Some(8) ELSE Null)
        a == RawCompetitor("away", info.away, IF st = "post" THEN Some(6) ELSE Null)
    IN [id |-> e,
        date |-> DateOfDay(info.day),
        competitors |-> IF st = "bad" THEN <<h>> ELSE <<a, h>>,
        statusType |-> [completed |-> (st = "post"),
                        state |-> IF st = "post" THEN "post" ELSE "pre",
                        name |-> IF st = "post" THEN "STATUS_FINAL" ELSE "STATUS_SCHEDULED"],
        neutralSite |-> FALSE]

\* the team statistics arrays a summary can carry: no shooting figures at
\* all, or one of two lines (the second without a "points" statistic)
NoStats == [fgm |-> 0, fga |-> 0, fg3m |-> 0, fg3a |-> 0, ftm |-> 0, fta |-> 0, points |-> 0]
LineA == [fgm |-> 3, fga |-> 5, fg3m |-> 1, fg3a |-> 2, ftm |-> 1, fta |-> 2, points |-> 8]
LineB == [fgm |-> 2, fga |-> 4, fg3m |-> 0, fg3a |-> 1, ftm |-> 2, fta |-> 3, points |-> 0]
HomeLines == {NoStats, LineA}
\* the home line after the provider has corrected the boxscore
LineC == [fgm |-> 4, fga |-> 6, fg3m |-> 2, fg3a |-> 3, ftm |-> 1, fta |-> 2, points |-> 11]
AwayLines == {NoStats, LineB}

(***************************************************************************)
(* Pure functions of the synchronizer and the client.                      *)
(***************************************************************************)
\* season label "YYYY-YY" as <<YYYY, YY>>
SeasonLabel(startYear) == <<startYear, (startYear + 1) % 100>>

deriveSeasonFromDate(date) ==
    IF date.month >= 10 THEN SeasonLabel(date.year) ELSE SeasonLabel(date.year - 1)

\* statusName.toUpperCase().includes(word), over the status names of the model
NameIncludes(name, word) ==
    CASE word = "POSTPONED" -> name \in {"STATUS_POSTPONED", "status_postponed",
                                          "STATUS_POSTPONED_THEN_CANCELED"}
      [] word = "CANCEL"    -> name \in {"STATUS_CANCELED", "STATUS_CANCELLED",
                                          "STATUS_POSTPONED_THEN_CANCELED"}
      [] OTHER              -> FALSE

\* variant: without the completed check
mapGameStatus_ByStateOnly(event) ==
    CASE event.statusState = "post" -> "FINAL"
      [] event.statusState = "in" -> "IN_PROGRESS"
      [] event.statusState = "pre" -> "SCHEDULED"
      [] OTHER -> IF NameIncludes(event.statusName, "POSTPONED") THEN "POSTPONED"
                  ELSE IF NameIncludes(event.statusName, "CANCEL") THEN "CANCELLED"
                  ELSE "SCHEDULED"

mapGameStatus(event) ==
    IF event.completed THEN "FINAL"
    ELSE CASE event.statusState = "post" -> "FINAL"
           [] event.statusState = "in" -> "IN_PROGRESS"
           [] event.statusState = "pre" -> "SCHEDULED"
           [] OTHER -> IF NameIncludes(event.statusName, "POSTPONED") THEN "POSTPONED"
                       ELSE IF NameIncludes(event.statusName, "CANCEL") THEN "CANCELLED"
                       ELSE "SCHEDULED"

\* competitors.find(c => c.homeAway === side): the first match, or none
FindCompetitor(competitors, side) ==
    LET idx == {i \in 1..Len(competitors) : competitors[i].homeAway = side}
    IN IF idx = {} THEN Null
       ELSE Some(competitors[CHOOSE i \in idx : \A j \in idx : i <= j])

parseTeam(c) == [id |-> c.teamId, displayName |-> c.displayName, score |-> c.score]

\* one event of parseScoreboardEvents: Null where it throws
parseEvent(raw) ==
    LET h == FindCompetitor(raw.competitors, "home")
        a == FindCompetitor(raw.competitors, "away")
    IN IF h = Null \/ a = Null THEN Null
       ELSE Some([id |-> raw.id,
                  date |-> raw.date,
                  completed |-> (raw.statusType.completed \/ raw.statusType.state = "post"),
                  statusState |-> raw.statusType.state,
                  statusName |-> raw.statusType.name,
                  neutralSite |-> raw.neutralSite,
                  home |-> parseTeam(h[1]),
                  away |-> parseTeam(a[1])])

\* events.map(...): one throwing event makes the whole call throw (Null)
parseScoreboardEvents(raws) ==
    IF \E i \in 1..Len(raws) : parseEvent(raws[i]) = Null THEN Null
    ELSE Some([i \in 1..Len(raws) |-> parseEvent(raws[i])[1]])

extractTeamStats(line) ==
    IF line.fga = 0 /\ line.fg3a = 0 /\ line.fta = 0 THEN Null
    ELSE Some([field_goals_made |-> line.fgm, field_goals_att |-> line.fga,
               three_points_made |-> line.fg3m, three_points_att |-> line.fg3a,
               free_throws_made |-> line.ftm, free_throws_att |-> line.fta,
               points |-> line.points])

\* variant: the field goals taken as the two-pointers
derive2ptFromFg_KeepsFg(fgm, fga, threePtm, threePta) ==
    [twoPtm |-> fgm, twoPta |-> fga]

derive2ptFromFg(fgm, fga, threePtm, threePta) ==
    [twoPtm |-> fgm - threePtm, twoPta |-> fga - threePta]

(***************************************************************************)
(* The store: the Team, Game, TeamGameStats and TeamSeasonRollup tables,   *)
(* each a set of rows.  A created row's id is its unique key followed by   *)
(* the number of rows already holding that key (0 under the unique         *)
(* constraint), so that a second row for a key would be a second row.      *)
(* A timestamp (lastSyncedAt) is kept relative to the start of the latest  *)
(* sync run: "thisRun" when written since, "earlier" otherwise.            *)
(***************************************************************************)
StatCols == {"off2ptm", "off2pta", "off3ptm", "off3pta", "offFtm", "offFta",
             "def2ptmAllowed", "def2ptaAllowed", "def3ptmAllowed", "def3ptaAllowed",
             "defFtmAllowed", "defFtaAllowed"}

TeamKey(t, league, season, providerTeamId) ==
    t.league = league /\ t.season = season /\ t.providerTeamId = providerTeamId

\* prisma.team.findUnique({ where: { league_season_providerTeamId } })
teamFindUnique(teamRows, league, season, providerTeamId) ==
    {t \in teamRows : TeamKey(t, league, season, providerTeamId)}

\* variant: create without looking for the key
teamUpsert_AlwaysCreates(teamRows, league, season, providerTeamId, name) ==
    LET found == {t \in teamRows : TeamKey(t, league, season, providerTeamId)}
    IN teamRows \cup {[id |-> <<league, season, providerTeamId, Cardinality(found)>>,
                        league |-> league, season |-> season,
                        providerTeamId |-> providerTeamId, name |-> name]}

\* prisma.team.upsert of upsertTeam: create, or update the name
teamUpsert(teamRows, league, season, providerTeamId, name) ==
    LET found == teamFindUnique(teamRows, league, season, providerTeamId)
    IN IF found # {}
       THEN {IF t \in found THEN [t EXCEPT !.name = name] ELSE t : t \in teamRows}
       ELSE teamRows \cup {[id |-> <<league, season, providerTeamId, 0>>,
                            league |-> league, season |-> season,
                            providerTeamId |-> providerTeamId, name |-> name]}

ZeroTotals == [c \in StatCols |-> 0]

\* prisma.teamSeasonRollup.upsert of upsertTeam: create an all-zero rollup
\* (the schema's defaults), or update league and season only
rollupEnsure(rollupRows, teamId, league, season) ==
    IF \E r \in rollupRows : r.teamId = teamId
    THEN {IF r.teamId = teamId THEN [r EXCEPT !.league = league, !.season = season] ELSE r
          : r \in rollupRows}
    ELSE rollupRows \cup {[teamId |-> teamId, league |-> league, season |-> season,
                           gamesPlayed |-> 0, totals |-> ZeroTotals]}

GameKey(g, league, season, providerGameId) ==
    g.league = league /\ g.season = season /\ g.providerGameId = providerGameId

\* prisma.game.findUnique({ where: { league_season_providerGameId } })
gameFindUnique(gameRows, league, season, providerGameId) ==
    {g \in gameRows : GameKey(g, league, season, providerGameId)}

\* variant: the created row's season taken from the event's date
gameCreate_DerivesSeason(league, season, event, homeTeamId, awayTeamId, at) ==
    [id |-> <<league, deriveSeasonFromDate(event.date), event.id, 0>>,
     league |-> league, season |-> deriveSeasonFromDate(event.date),
     providerGameId |-> event.id,
     dateTime |-> event.date,
     homeTeamId |-> homeTeamId, awayTeamId |-> awayTeamId,
     neutralSite |-> event.neutralSite,
     status |-> mapGameStatus(event),
     homeScore |-> event.home.score, awayScore |-> event.away.score,
     statsProcessed |-> FALSE,
     lastSyncedAt |-> at]

\* the create branch of upsertGame (statsProcessed: the schema's default)
gameCreate(league, season, event, homeTeamId, awayTeamId, at) ==
    [id |-> <<league, season, event.id, 0>>,
     league |-> league, season |-> season, providerGameId |-> event.id,
     dateTime |-> event.date,
     homeTeamId |-> homeTeamId, awayTeamId |-> awayTeamId,
     neutralSite |-> event.neutralSite,
     status |-> mapGameStatus(event),
     homeScore |-> event.home.score, awayScore |-> event.away.score,
     statsProcessed |-> FALSE,
     lastSyncedAt |-> at]

\* variant: the update branch also writes the create branch's statsProcessed
gameUpdate_ResetsProcessed(g, event, at) ==
    [g EXCEPT !.dateTime = event.date,
              !.neutralSite = event.neutralSite,
              !.status = mapGameStatus(event),
              !.homeScore = event.home.score,
              !.awayScore = event.away.score,
              !.statsProcessed = FALSE,
              !.lastSyncedAt = at]

\* variant: the update branch without status
gameUpdate_KeepsStatus(g, event, at) ==
    [g EXCEPT !.dateTime = event.date,
              !.neutralSite = event.neutralSite,
              !.homeScore = event.home.score,
              !.awayScore = event.away.score,
              !.lastSyncedAt = at]

\* the update branch of upsertGame
gameUpdate(g, event, at) ==
    [g EXCEPT !.dateTime = event.date,
              !.neutralSite = event.neutralSite,
              !.status = mapGameStatus(event),
              !.homeScore = event.home.score,
              !.awayScore = event.away.score,
              !.lastSyncedAt = at]

\* prisma.game.upsert of upsertGame
gameUpsert(gameRows, league, season, event, homeTeamId, awayTeamId, at) ==
    LET found == gameFindUnique(gameRows, league, season, event.id)
    IN IF found # {}
       THEN {IF g \in found THEN gameUpdate(g, event, at) ELSE g : g \in gameRows}
       ELSE gameRows \cup {gameCreate(league, season, event, homeTeamId, awayTeamId, at)}

\* the twelve figures of one side's TeamGameStats row: its own line and the
\* opponent's line as "allowed"
SideFigures(own, opp) ==
    LET own2pt == derive2ptFromFg(own.field_goals_made, own.field_goals_att,
                                  own.three_points_made, own.three_points_att)
        opp2pt == derive2ptFromFg(opp.field_goals_made, opp.field_goals_att,
                                  opp.three_points_made, opp.three_points_att)
    IN [off2ptm |-> own2pt.twoPtm, off2pta |-> own2pt.twoPta,
        off3ptm |-> own.three_points_made, off3pta |-> own.three_points_att,
        offFtm |-> own.free_throws_made, offFta |-> own.free_throws_att,
        def2ptmAllowed |-> opp2pt.twoPtm, def2ptaAllowed |-> opp2pt.twoPta,
        def3ptmAllowed |-> opp.three_points_made, def3ptaAllowed |-> opp.three_points_att,
        defFtmAllowed |-> opp.free_throws_made, defFtaAllowed |-> opp.free_throws_att]

\* prisma.teamGameStats.upsert({ where: { gameId_teamId } }): update the
\* figures of the row of (gameId, teamId), or create it
statsUpsert(statRows, gameId, teamId, opponentId, league, season, fig) ==
    LET found == {r \in statRows : r.gameId = gameId /\ r.teamId = teamId}
    IN IF found # {}
       THEN {IF r \in found THEN [r EXCEPT !.fig = fig] ELSE r : r \in statRows}
       ELSE statRows \cup {[id |-> <<gameId, teamId, 0>>,
                            gameId |-> gameId, teamId |-> teamId, opponentId |-> opponentId,
                            league |-> league, season |-> season, fig |-> fig]}

RECURSIVE SumCol(_, _)
SumCol(rows, c) ==
    IF rows = {} THEN 0
    ELSE LET r == CHOOSE x \in rows : TRUE
         IN r.fig[c] + SumCol(rows \ {r}, c)

\* prisma.teamGameStats.aggregate({ where: { teamId, league, season } }):
\* the row count and the column sums (null over no rows)
statsAggregate(statRows, teamId, league, season) ==
    LET rows == {r \in statRows : r.teamId = teamId /\ r.league = league /\ r.season = season}
    IN [count |-> Cardinality(rows),
        sum |-> IF rows = {} THEN Null ELSE Some([c \in StatCols |-> SumCol(rows, c)])]

\* stats._sum.x ?? 0
SumOrZero(agg) == IF agg.sum = Null THEN ZeroTotals ELSE agg.sum[1]

\* prisma.teamSeasonRollup.upsert of updateTeamSeasonRollup: overwrite
\* gamesPlayed and the totals, or create the row with them
rollupUpsert(rollupRows, teamId, league, season, agg) ==
    IF \E r \in rollupRows : r.teamId = teamId
    THEN {IF r.teamId = teamId
          THEN [r EXCEPT !.gamesPlayed = agg.count, !.totals = SumOrZero(agg)]
          ELSE r : r \in rollupRows}
    ELSE rollupRows \cup {[teamId |-> teamId, league |-> league, season |-> season,
                           gamesPlayed |-> agg.count, totals |-> SumOrZero(agg)]}

\* a ?? b
Coalesce(a, b) == IF a = Null THEN b ELSE a

\* the data of prisma.game.update in processCompletedGames, applied to the
\* stored row g; snapshot is the row as findMany returned it.  points is a
\* number in every extracted line
gameMarkProcessed(g, snapshot, homeStats, awayStats) ==
    [g EXCEPT !.statsProcessed = TRUE,
              !.homeScore = Coalesce(Some(homeStats.points), snapshot.homeScore),
              !.awayScore = Coalesce(Some(awayStats.points), snapshot.awayScore)]

(***************************************************************************)
(* State.                                                                  *)
(***************************************************************************)
VARIABLES
    upstream,    \* the provider: the state of each event
    teams,       \* Team rows
    games,       \* Game rows
    stats,       \* TeamGameStats rows
    rollups,     \* TeamSeasonRollup rows
    sync,        \* the running syncDateRangeBothLeagues call, or idle
    proc,        \* the running processCompletedGames call, or idle
    proc2,       \* a second processCompletedGames call (a manual trigger), or idle
    faults,      \* the number of failed fetches and storage calls so far
    covered,     \* history: the parameters of the last sync run that completed
                 \* without error, while the upstream has not changed since
    doneBefore,  \* history: the games earlier processor runs counted as processed
    overlap,     \* whether a sync run and a processor run may be in progress together
    track,       \* whether the history of covering sync runs (covered) is kept
    averages,    \* NationalAverages rows
    nat,         \* the running buildNationalAverages call, or idle
    req,         \* the client's fetchWithRetry call in progress, or idle
    summary,     \* what the provider's summary endpoint has for each event
    other,       \* for each of two sync runs in progress, the event it is working on
    calc,        \* a call of one of the pure functions: its name, argument and result
    seasonRun,   \* a call of syncSeasonBothLeagues: its arguments and its position
    client,      \* the ESPNClient instance, the clock, and the calls made through it
    bootstrapStatus,  \* the module-level status record of bootstrap.ts
    boot         \* the running startup bootstrap, or idle

vars == <<upstream, teams, games, stats, rollups, sync, proc, proc2, faults, covered, doneBefore,
          overlap, track, averages, nat, req, summary, other, calc, seasonRun, client, bootstrapStatus, boot>>
store == <<teams, games, stats, rollups>>

ZeroLeagueResult ==
    [teamsInserted |-> 0, teamsUpdated |-> 0, gamesInserted |-> 0, gamesUpdated |-> 0,
     errors |-> <<>>]

SyncIdle ==
    [pc |-> "idle", start |-> 0, days |-> 0, forcedSeason |-> Null,
     li |-> 0, i |-> 0, events |-> <<>>, k |-> 0,
     homeTeam |-> Null, awayTeam |-> Null, existing |-> Null,
     result |-> [l \in LeagueSet |-> ZeroLeagueResult], totalErrors |-> <<>>,
     tried |-> {}, rerun |-> FALSE, stable |-> TRUE, before |-> Null]

ProcIdle ==
    [pc |-> "idle", games |-> <<>>, idx |-> 0, boxscore |-> Null, agg |-> Null,
     result |-> [gamesFound |-> 0, gamesProcessed |-> 0, gamesSkipped |-> 0, errors |-> <<>>],
     processed |-> {}]

\* buildNationalAverages: result = { mens: null, womens: null }; today is the
\* clock's date at the latest call
NatIdle ==
    [pc |-> "idle", today |-> DateOfDay(0), season |-> Null, li |-> 0, found |-> {},
     result |-> [l \in LeagueSet |-> Null]]

\* no pure function called
CalcIdle == [op |-> "", arg |-> <<>>, out |-> Null]

\* no call of syncSeasonBothLeagues made
SeasonIdle ==
    [pc |-> "idle", season |-> <<>>, startISO |-> Null, endISO |-> Null, error |-> "",
     start |-> 0, days |-> 0, li |-> 0, i |-> 0, fetched |-> {}]

\* the pipeline runs that share the one client of getESPNClient
Callers == {"sync", "processor"}

\* a new client, the clock (ms) a full pacing interval past the epoch, no
\* call in progress; prevStart and lastStart are history: the times the last
\* two requests were started
ClientIdle ==
    [now |-> 500, lastRequestTime |-> 0, prevStart |-> Null, lastStart |-> Null,
     call |-> [c \in Callers |-> [pc |-> "idle", wake |-> 0, attempt |-> 0, calls |-> 0]]]

BootstrapInitial ==
    [lastRunAt |-> Null, lastSuccessAt |-> Null, lastErrorAt |-> Null, lastError |-> Null,
     isRunning |-> FALSE, runCount |-> 0]

\* no bootstrap scheduled; clock is the reading new Date() gives next
\* outcomes and returned are history: how each attempt of the run ended, and
\* the totalErrors of the result the sync returned
BootIdle ==
    [pc |-> "idle", attempt |-> 0, lastError |-> Null, clock |-> 1,
     outcomes |-> <<>>, returned |-> Null]

\* a sync run between two events
OtherIdle ==
    [pc |-> "idle", league |-> "", season |-> Null, event |-> Null,
     homeTeam |-> Null, awayTeam |-> Null]

\* no fetch in progress
ReqIdle ==
    [pc |-> "idle", event |-> "", attempt |-> 0, lastError |-> Null, slept |-> <<>>,
     response |-> Null]

InitTables ==
    /\ upstream = [e \in Events |-> "pre"]
    /\ teams = {}
    /\ games = {}
    /\ stats = {}
    /\ rollups = {}
    /\ sync = SyncIdle
    /\ proc = ProcIdle
    /\ proc2 = ProcIdle
    /\ averages = {}
    /\ nat = NatIdle
    /\ req = ReqIdle
    /\ summary = [e \in Events |-> "down"]
    /\ other = [r \in {1, 2} |-> OtherIdle]
    /\ calc = CalcIdle
    /\ seasonRun = SeasonIdle
    /\ client = ClientIdle
    /\ bootstrapStatus = BootstrapInitial
    /\ boot = BootIdle
    /\ covered = Null
    /\ doneBefore = {}

InitStore ==
    /\ faults = 0
    /\ InitTables

\* runs one after the other, as the scheduler's separate cron entries start them
Init == InitStore /\ overlap = FALSE /\ track = FALSE

\* the same with the history of covering sync runs kept, and no call failing
InitRerun == InitTables /\ faults = MaxFaults /\ overlap = FALSE /\ track = TRUE

\* overlapping runs (a manual trigger during a scheduled run), none of whose
\* calls fails, the provider's events all well-formed
InitOverlap == InitTables /\ faults = MaxFaults /\ overlap = TRUE /\ track = FALSE

\* two processor calls may be in progress together (never with a sync run);
\* no call fails
InitConcurrent == InitTables /\ faults = MaxFaults /\ overlap = FALSE /\ track = FALSE

\* whether a call with this outcome can happen: a failing call spends one of
\* the behaviour's faults
Fault(failed) ==
    /\ failed => faults < MaxFaults
    /\ faults' = IF failed THEN faults + 1 ELSE faults

(***************************************************************************)
(* syncDateRangeBothLeagues, one step per awaited call.                    *)
(***************************************************************************)
\* the seasons syncSeasonBothLeagues is called with
ForcedSeasons == {}

SyncParams(s) == [start |-> s.start, days |-> s.days, forcedSeason |-> s.forcedSeason]

\* a run over dates the covering run synced, with the same season argument
IsRerun(start, days, forcedSeason) ==
    /\ covered # Null
    /\ covered[1].forcedSeason = forcedSeason
    /\ covered[1].start <= start
    /\ start + days <= covered[1].start + covered[1].days

\* the loops' continuation after the current date
NextDate(s) ==
    LET c == [s EXCEPT !.events = <<>>, !.k = 0, !.homeTeam = Null, !.awayTeam = Null,
                       !.existing = Null]
    IN IF s.i + 1 < s.days THEN [c EXCEPT !.pc = "fetch", !.i = s.i + 1]
       ELSE IF s.li < Len(Leagues) THEN [c EXCEPT !.pc = "fetch", !.li = s.li + 1, !.i = 0]
       ELSE [c EXCEPT !.pc = "done"]

\* the loops' continuation after the current event (existing: the row the
\* latest upsertGame of this date found, kept for the properties)
NextEvent(s) ==
    IF s.k < Len(s.events)
    THEN [s EXCEPT !.pc = "homeTeam", !.k = s.k + 1, !.homeTeam = Null, !.awayTeam = Null]
    ELSE NextDate(s)

\* catch (dateError): the league's errors and totalErrors
DateError(s, league, d) ==
    [s EXCEPT !.result[league].errors = Append(@, <<"date", league, d>>),
              !.totalErrors = Append(@, <<"date", league, d>>)]

\* variant: the catch around the date loop instead of inside it
AfterDateError_LeavesLeague(s, league, d) ==
    LET c == [DateError(s, league, d) EXCEPT !.events = <<>>, !.k = 0, !.homeTeam = Null,
                                             !.awayTeam = Null, !.existing = Null]
    IN IF s.li < Len(Leagues) THEN [c EXCEPT !.pc = "fetch", !.li = s.li + 1, !.i = 0]
       ELSE [c EXCEPT !.pc = "done"]

\* catch (dateError), and on to the next date
AfterDateError(s, league, d) == NextDate(DateError(s, league, d))

\* catch (eventError): the league's errors only
EventError(s, league, eventId) ==
    [s EXCEPT !.result[league].errors = Append(@, <<"event", eventId>>)]

SyncLeague == Leagues[sync.li]
SyncDay == sync.start + sync.i
SyncEvent == sync.events[sync.k]
SyncSeason == Coalesce(sync.forcedSeason, Some(deriveSeasonFromDate(SyncEvent.date)))[1]

\* syncSchedules / syncSeasonBothLeagues enter syncDateRangeBothLeagues
syncDateRangeBothLeagues(start, end, forced) ==
    /\ sync.pc = "idle"
    /\ overlap \/ (proc.pc = "idle" /\ proc2.pc = "idle")
    /\ start <= end
    /\ sync' = [SyncIdle EXCEPT
                  !.pc = "fetch", !.start = start, !.days = end - start + 1,
                  !.forcedSeason = forced, !.li = 1, !.i = 0,
                  !.rerun = IsRerun(start, end - start + 1, forced),
                  !.before = IF IsRerun(start, end - start + 1, forced)
                             THEN Some(store) ELSE Null]
    /\ games' = {[g EXCEPT !.lastSyncedAt = "earlier"] : g \in games}
    /\ UNCHANGED <<upstream, teams, stats, rollups, proc, proc2, faults, covered, doneBefore,
                   overlap, track, averages, nat, req, summary, other, calc, seasonRun, client>>

\* a run started by the scheduler or by a route
SyncStart ==
    /\ \E start \in Days, end \in Days, forced \in {Null} \cup {Some(x) : x \in ForcedSeasons} :
          syncDateRangeBothLeagues(start, end, forced)
    /\ UNCHANGED <<bootstrapStatus, boot>>

\* await client.getScoreboard(league, dateStr): the fetch fails after its
\* retries, or the response is parsed (which throws on a bad event).  Only
\* this call reads the provider's events, so a change of an event's state is
\* taken at the fetch that first sees it
SyncFetch ==
    /\ sync.pc = "fetch"
    /\ \E fetched \in BOOLEAN, served \in [Events -> UpStates] :
         LET league == SyncLeague
             d == SyncDay
             ids == Scoreboard(league, d)
             raws == [j \in 1..Len(ids) |-> RawEvent(ids[j], served[ids[j]])]
             parsed == parseScoreboardEvents(raws)
             s == [sync EXCEPT !.tried = @ \cup {<<league, d>>},
                               !.stable = @ /\ (track => served = upstream)]
         IN /\ \A e \in Events :
                 /\ served[e] \in EventStates(e)
                 /\ overlap => served[e] # "bad"
                 /\ (~fetched \/ \A j \in 1..Len(ids) : ids[j] # e) => served[e] = upstream[e]
            /\ Fault(~fetched)
            /\ upstream' = served
            /\ covered' = IF served = upstream THEN covered ELSE Null
            /\ sync' = IF ~fetched \/ parsed = Null THEN AfterDateError(s, league, d)
                       ELSE IF parsed[1] = <<>> THEN NextDate(s)
                       ELSE [s EXCEPT !.pc = "homeTeam", !.events = parsed[1], !.k = 1]
    /\ UNCHANGED <<teams, games, stats, rollups, proc, proc2, doneBefore, overlap, track, averages, nat, req, summary, other, calc, seasonRun, client, bootstrapStatus, boot>>

\* upsertTeam: the outcomes of its three awaited calls.  "ok": all succeed;
\* "early": findUnique or team.upsert throws; "late": teamSeasonRollup.upsert
\* throws after the team was written
UpsertTeamOutcomes == {"ok", "early", "late"}

upsertTeamTeams(outcome, league, season, t) ==
    IF outcome = "early" THEN teams
    ELSE teamUpsert(teams, league, season, t.id, t.displayName)

upsertTeamRollups(outcome, league, season, t) ==
    IF outcome # "ok" THEN rollups
    ELSE LET row == CHOOSE x \in teamFindUnique(upsertTeamTeams(outcome, league, season, t),
                                                league, season, t.id) : TRUE
         IN rollupEnsure(rollups, row.id, league, season)

\* variant: inserted read after the upsert
upsertTeamResult_ReadsAfter(league, season, t) ==
    LET after == upsertTeamTeams("ok", league, season, t)
        row == CHOOSE x \in teamFindUnique(after, league, season, t.id) : TRUE
    IN Some([id |-> row.id, inserted |-> teamFindUnique(after, league, season, t.id) # {}])

\* { team, inserted: !existing }
upsertTeamResult(league, season, t) ==
    LET row == CHOOSE x \in teamFindUnique(upsertTeamTeams("ok", league, season, t),
                                           league, season, t.id) : TRUE
    IN Some([id |-> row.id, inserted |-> teamFindUnique(teams, league, season, t.id) = {}])

CountTeam(s, league, res) ==
    [s EXCEPT !.result[league].teamsInserted = @ + (IF res[1].inserted THEN 1 ELSE 0),
              !.result[league].teamsUpdated = @ + (IF res[1].inserted THEN 0 ELSE 1)]

SyncHomeTeam ==
    /\ sync.pc = "homeTeam"
    /\ \E outcome \in UpsertTeamOutcomes :
         LET league == SyncLeague
             season == SyncSeason
             t == SyncEvent.home
             res == upsertTeamResult(league, season, t)
         IN /\ Fault(outcome # "ok")
            /\ teams' = upsertTeamTeams(outcome, league, season, t)
            /\ rollups' = upsertTeamRollups(outcome, league, season, t)
            /\ sync' = IF outcome = "ok"
                       THEN [CountTeam(sync, league, res) EXCEPT !.pc = "awayTeam", !.homeTeam = res]
                       ELSE NextEvent(EventError(sync, league, SyncEvent.id))
    /\ UNCHANGED <<upstream, games, stats, proc, proc2, covered, doneBefore, overlap, track, averages, nat, req, summary, other, calc, seasonRun, client, bootstrapStatus, boot>>

SyncAwayTeam ==
    /\ sync.pc = "awayTeam"
    /\ \E outcome \in UpsertTeamOutcomes :
         LET league == SyncLeague
             season == SyncSeason
             t == SyncEvent.away
             res == upsertTeamResult(league, season, t)
         IN /\ Fault(outcome # "ok")
            /\ teams' = upsertTeamTeams(outcome, league, season, t)
            /\ rollups' = upsertTeamRollups(outcome, league, season, t)
            /\ sync' = IF outcome = "ok"
                       THEN [CountTeam(sync, league, res) EXCEPT !.pc = "game", !.awayTeam = res]
                       ELSE NextEvent(EventError(sync, league, SyncEvent.id))
    /\ UNCHANGED <<upstream, games, stats, proc, proc2, covered, doneBefore, overlap, track, averages, nat, req, summary, other, calc, seasonRun, client, bootstrapStatus, boot>>

\* upsertGame: findUnique, then game.upsert; either may throw before writing
SyncGame ==
    /\ sync.pc = "game"
    /\ \E ok \in BOOLEAN :
         LET league == SyncLeague
             season == SyncSeason
             found == gameFindUnique(games, league, season, SyncEvent.id)
             inserted == found = {}
             existing == IF inserted THEN Null ELSE Some(CHOOSE g \in found : TRUE)
         IN /\ Fault(~ok)
            /\ games' = IF ok
                        THEN gameUpsert(games, league, season, SyncEvent,
                                        sync.homeTeam[1].id, sync.awayTeam[1].id, "thisRun")
                        ELSE games
            /\ sync' = IF ok
                       THEN NextEvent([sync EXCEPT
                              !.existing = existing,
                              !.result[league].gamesInserted = @ + (IF inserted THEN 1 ELSE 0),
                              !.result[league].gamesUpdated = @ + (IF inserted THEN 0 ELSE 1)])
                       ELSE NextEvent(EventError(sync, league, SyncEvent.id))
    /\ UNCHANGED <<upstream, teams, stats, rollups, proc, proc2, covered, doneBefore, overlap, track, averages, nat, req, summary, other, calc, seasonRun, client, bootstrapStatus, boot>>

SyncClean(s) == s.totalErrors = <<>> /\ \A l \in LeagueSet : s.result[l].errors = <<>>

\* return result
SyncResult ==
    /\ sync.pc = "done"
    /\ sync' = SyncIdle
    /\ covered' = IF track /\ SyncClean(sync) /\ sync.stable /\ ~sync.rerun
                  THEN Some(SyncParams(sync)) ELSE covered
    /\ UNCHANGED <<upstream, teams, games, stats, rollups, proc, proc2, faults, doneBefore,
                   overlap, track, averages, nat, req, summary, other, calc, seasonRun, client>>

\* the result goes to the scheduler or the route
SyncReturn == SyncResult /\ UNCHANGED <<bootstrapStatus, boot>>

SyncNext == SyncStart \/ SyncFetch \/ SyncHomeTeam \/ SyncAwayTeam \/ SyncGame \/ SyncReturn

(***************************************************************************)
(* processCompletedGames, one step per awaited call.                       *)
(***************************************************************************)
\* variant: the where clause without statsProcessed: false
SelectUnprocessed_AnyFinal(gameRows) ==
    {g \in gameRows : g.status = "FINAL"}

\* variant: findMany with take: 1
SelectUnprocessed_TakeOne(gameRows) ==
    LET sel == {g \in gameRows : g.status = "FINAL" /\ ~g.statsProcessed}
    IN IF sel = {} THEN {} ELSE {CHOOSE g \in sel : TRUE}

\* where: { status: 'FINAL', statsProcessed: false }
SelectUnprocessed(gameRows) ==
    {g \in gameRows : g.status = "FINAL" /\ ~g.statsProcessed}

DateLE(a, b) ==
    \/ a.year < b.year
    \/ a.year = b.year /\ a.month < b.month
    \/ a.year = b.year /\ a.month = b.month /\ a.day <= b.day

\* variant: findMany without orderBy
OrderByDateTime_AnyOrder(rows) ==
    {q \in [1..Cardinality(rows) -> rows] : \A i, j \in DOMAIN q : i # j => q[i] # q[j]}

\* orderBy: { dateTime: 'asc' }: every order of the rows that is ascending
\* in dateTime (the order among equal dateTimes is the database's)
OrderByDateTime(rows) ==
    {q \in [1..Cardinality(rows) -> rows] :
        /\ \A i, j \in DOMAIN q : i # j => q[i] # q[j]
        /\ \A i, j \in DOMAIN q : i < j => DateLE(q[i].dateTime, q[j].dateTime)}

\* what getGameSummary returns: null (the fetch failed after its retries, or
\* the summary has fewer than two team blocks), or the parsed boxscore
BoxscoreOutcomes ==
    {Null} \cup {Some([home |-> [statistics |-> extractTeamStats(h)],
                       away |-> [statistics |-> extractTeamStats(a)]])
                 : h \in HomeLines, a \in AwayLines}

\* the game, and the two statistics blocks, a call is working on
GameOf(p) == p.games[p.idx]
HomeStatsOf(p) == p.boxscore[1].home.statistics[1]
AwayStatsOf(p) == p.boxscore[1].away.statistics[1]
ProcGame == GameOf(proc)
ProcHomeStats == HomeStatsOf(proc)
ProcAwayStats == AwayStatsOf(proc)

\* the for loop's continuation after the current game
NextGame(p) ==
    IF p.idx < Len(p.games)
    THEN [p EXCEPT !.pc = "fetch", !.idx = p.idx + 1, !.boxscore = Null, !.agg = Null]
    ELSE [p EXCEPT !.pc = "done", !.boxscore = Null, !.agg = Null]

\* variant: a skipped game counted as processed
SkipGame_CountsProcessed(p) == NextGame([p EXCEPT !.result.gamesProcessed = @ + 1])

\* result.gamesSkipped++; continue
SkipGame(p) == NextGame([p EXCEPT !.result.gamesSkipped = @ + 1])

\* !boxscore, or !homeStats || !awayStats
MissingData(boxscore) ==
    \/ boxscore = Null
    \/ boxscore[1].home.statistics = Null
    \/ boxscore[1].away.statistics = Null

\* variant: the per-game failure reaches the caller
GameError_Rethrows(p) == [p EXCEPT !.pc = "thrown", !.boxscore = Null, !.agg = Null]

\* variant: the failure caught and not recorded
GameError_NotRecorded(p) == NextGame(p)

\* catch (error): result.errors.push
GameError(p) ==
    NextGame([p EXCEPT !.result.errors = Append(@, p.games[p.idx].providerGameId)])

(* The steps of one processCompletedGames call, p its state before the     *)
(* step and pn after it.                                                   *)
\* await prisma.game.findMany (outside the try: its rejection reaches the caller)
StartStep(p, pn) ==
    /\ p.pc = "idle"
    /\ overlap \/ sync.pc = "idle"
    /\ \E ok \in BOOLEAN :
         /\ Fault(~ok)
         /\ IF ok
            THEN \E q \in OrderByDateTime(SelectUnprocessed(games)) :
                   pn = [ProcIdle EXCEPT !.pc = IF Len(q) = 0 THEN "done" ELSE "fetch",
                                         !.games = q, !.idx = 1,
                                         !.result.gamesFound = Len(q)]
            ELSE pn = [ProcIdle EXCEPT !.pc = "thrown"]
    /\ UNCHANGED <<upstream, teams, games, stats, rollups, sync, covered, doneBefore, overlap, track, averages, nat, req, summary, other, calc, seasonRun, client, bootstrapStatus, boot>>

\* await client.getGameSummary, then the two skip checks
FetchStep(p, pn) ==
    /\ p.pc = "fetch"
    /\ \E boxscore \in BoxscoreOutcomes :
         pn = IF MissingData(boxscore) THEN SkipGame(p)
              ELSE [p EXCEPT !.pc = "home", !.boxscore = boxscore]
    /\ UNCHANGED <<upstream, teams, games, stats, rollups, sync, faults, covered,
                   doneBefore, overlap, track, averages, nat, req, summary, other, calc, seasonRun, client, bootstrapStatus, boot>>

\* await prisma.teamGameStats.upsert for the home team
HomeStep(p, pn) ==
    /\ p.pc = "home"
    /\ \E ok \in BOOLEAN :
         /\ Fault(~ok)
         /\ stats' = IF ok
                     THEN statsUpsert(stats, GameOf(p).id, GameOf(p).homeTeamId,
                                      GameOf(p).awayTeamId, GameOf(p).league, GameOf(p).season,
                                      SideFigures(HomeStatsOf(p), AwayStatsOf(p)))
                     ELSE stats
         /\ pn = IF ok THEN [p EXCEPT !.pc = "away"] ELSE GameError(p)
    /\ UNCHANGED <<upstream, teams, games, rollups, sync, covered, doneBefore, overlap, track, averages, nat, req, summary, other, calc, seasonRun, client, bootstrapStatus, boot>>

\* await prisma.teamGameStats.upsert for the away team
AwayStep(p, pn) ==
    /\ p.pc = "away"
    /\ \E ok \in BOOLEAN :
         /\ Fault(~ok)
         /\ stats' = IF ok
                     THEN statsUpsert(stats, GameOf(p).id, GameOf(p).awayTeamId,
                                      GameOf(p).homeTeamId, GameOf(p).league, GameOf(p).season,
                                      SideFigures(AwayStatsOf(p), HomeStatsOf(p)))
                     ELSE stats
         /\ pn = IF ok THEN [p EXCEPT !.pc = "aggHome"] ELSE GameError(p)
    /\ UNCHANGED <<upstream, teams, games, rollups, sync, covered, doneBefore, overlap, track, averages, nat, req, summary, other, calc, seasonRun, client, bootstrapStatus, boot>>

\* updateTeamSeasonRollup as one call: aggregate, then upsert the rollup with
\* the result
updateTeamSeasonRollup(rollupRows, statRows, teamId, league, season) ==
    rollupUpsert(rollupRows, teamId, league, season,
                 statsAggregate(statRows, teamId, league, season))

\* the team of a side of the game a call is working on
SideTeam(p, side) == IF side = "Home" THEN GameOf(p).homeTeamId ELSE GameOf(p).awayTeamId

\* updateTeamSeasonRollup, first await: prisma.teamGameStats.aggregate
AggStep(p, pn, side) ==
    /\ p.pc = "agg" \o side
    /\ \E ok \in BOOLEAN :
         /\ Fault(~ok)
         /\ pn = IF ok
                 THEN [p EXCEPT !.pc = "rollup" \o side,
                                !.agg = Some(statsAggregate(stats, SideTeam(p, side),
                                                            GameOf(p).league, GameOf(p).season))]
                 ELSE GameError(p)
    /\ UNCHANGED <<upstream, teams, games, stats, rollups, sync, covered, doneBefore, overlap, track, averages, nat, req, summary, other, calc, seasonRun, client, bootstrapStatus, boot>>

\* updateTeamSeasonRollup, second await: prisma.teamSeasonRollup.upsert with
\* the figures the aggregate returned
RollupStep(p, pn, side) ==
    /\ p.pc = "rollup" \o side
    /\ \E ok \in BOOLEAN :
         /\ Fault(~ok)
         /\ rollups' = IF ok
                       THEN rollupUpsert(rollups, SideTeam(p, side), GameOf(p).league,
                                         GameOf(p).season, p.agg[1])
                       ELSE rollups
         /\ pn = IF ok
                 THEN [p EXCEPT !.pc = IF side = "Home" THEN "aggAway" ELSE "mark", !.agg = Null]
                 ELSE GameError(p)
    /\ UNCHANGED <<upstream, teams, games, stats, sync, covered, doneBefore, overlap, track, averages, nat, req, summary, other, calc, seasonRun, client, bootstrapStatus, boot>>

\* await prisma.game.update({ where: { id: game.id } }), then gamesProcessed++
MarkStep(p, pn) ==
    /\ p.pc = "mark"
    /\ \E ok \in BOOLEAN :
         /\ Fault(~ok)
         /\ games' = IF ok
                     THEN {IF g.id = GameOf(p).id
                           THEN gameMarkProcessed(g, GameOf(p), HomeStatsOf(p), AwayStatsOf(p))
                           ELSE g : g \in games}
                     ELSE games
         /\ pn = IF ok
                 THEN NextGame([p EXCEPT !.result.gamesProcessed = @ + 1,
                                         !.processed = @ \cup {GameOf(p).id}])
                 ELSE GameError(p)
    /\ UNCHANGED <<upstream, teams, stats, rollups, sync, covered, doneBefore, overlap, track, averages, nat, req, summary, other, calc, seasonRun, client, bootstrapStatus, boot>>

\* return result (or the rejection of findMany reaches the caller)
ReturnStep(p, pn) ==
    /\ p.pc \in {"done", "thrown"}
    /\ pn = ProcIdle
    /\ doneBefore' = doneBefore \cup p.processed
    /\ UNCHANGED <<upstream, teams, games, stats, rollups, sync, faults, covered, overlap, track, averages, nat, req, summary, other, calc, seasonRun, client, bootstrapStatus, boot>>

\* the scheduled call
ProcStart == StartStep(proc, proc') /\ UNCHANGED proc2
ProcFetch == FetchStep(proc, proc') /\ UNCHANGED proc2
ProcHome == HomeStep(proc, proc') /\ UNCHANGED proc2
ProcAway == AwayStep(proc, proc') /\ UNCHANGED proc2
ProcAggHome == AggStep(proc, proc', "Home") /\ UNCHANGED proc2
ProcRollupHome == RollupStep(proc, proc', "Home") /\ UNCHANGED proc2
ProcAggAway == AggStep(proc, proc', "Away") /\ UNCHANGED proc2
ProcRollupAway == RollupStep(proc, proc', "Away") /\ UNCHANGED proc2
ProcMark == MarkStep(proc, proc') /\ UNCHANGED proc2
ProcReturn == ReturnStep(proc, proc') /\ UNCHANGED proc2

ProcNext ==
    \/ ProcStart \/ ProcFetch \/ ProcHome \/ ProcAway \/ ProcAggHome \/ ProcRollupHome
    \/ ProcAggAway \/ ProcRollupAway \/ ProcMark \/ ProcReturn

\* await client.getGameSummary when the provider serves the corrected boxscore
FetchRevisedStep(p, pn) ==
    /\ p.pc = "fetch"
    /\ pn = [p EXCEPT !.pc = "home",
                      !.boxscore = Some([home |-> [statistics |-> extractTeamStats(LineC)],
                                         away |-> [statistics |-> extractTeamStats(LineB)]])]
    /\ UNCHANGED <<upstream, teams, games, stats, rollups, sync, faults, covered,
                   doneBefore, overlap, track, averages, nat, req, summary, other, calc, seasonRun, client, bootstrapStatus, boot>>

ProcFetchRevised == FetchRevisedStep(proc, proc') /\ UNCHANGED proc2
Proc2FetchRevised == FetchRevisedStep(proc2, proc2') /\ UNCHANGED proc

\* a second call in progress at the same time
Proc2Start == StartStep(proc2, proc2') /\ UNCHANGED proc
Proc2Fetch == FetchStep(proc2, proc2') /\ UNCHANGED proc
Proc2Home == HomeStep(proc2, proc2') /\ UNCHANGED proc
Proc2Away == AwayStep(proc2, proc2') /\ UNCHANGED proc
Proc2AggHome == AggStep(proc2, proc2', "Home") /\ UNCHANGED proc
Proc2RollupHome == RollupStep(proc2, proc2', "Home") /\ UNCHANGED proc
Proc2AggAway == AggStep(proc2, proc2', "Away") /\ UNCHANGED proc
Proc2RollupAway == RollupStep(proc2, proc2', "Away") /\ UNCHANGED proc
Proc2Mark == MarkStep(proc2, proc2') /\ UNCHANGED proc
Proc2Return == ReturnStep(proc2, proc2') /\ UNCHANGED proc

Proc2Next ==
    \/ Proc2Start \/ Proc2Fetch \/ Proc2Home \/ Proc2Away \/ Proc2AggHome \/ Proc2RollupHome
    \/ Proc2AggAway \/ Proc2RollupAway \/ Proc2Mark \/ Proc2Return

(***************************************************************************)
(* buildNationalAverages, one step per awaited call.  A JS number that is  *)
(* a quotient of integers is kept as the fraction num / den.               *)
(***************************************************************************)
Frac(n, d) == [num |-> n, den |-> d]
FracEq(a, b) == a.num * b.den = b.num * a.den
FracAdd(a, b) == Frac(a.num * b.den + b.num * a.den, a.den * b.den)
FracScale(k, a) == Frac(k * a.num, a.den)

\* variant: the synchronizer's rule, without the off-season branch
getCurrentSeason_NoOffSeason(now) ==
    IF now.month >= 10 THEN SeasonLabel(now.year) ELSE SeasonLabel(now.year - 1)

\* getCurrentSeason() at the date now
getCurrentSeason(now) ==
    IF now.month >= 10 THEN SeasonLabel(now.year)
    ELSE IF now.month <= 4 THEN SeasonLabel(now.year - 1)
    ELSE SeasonLabel(now.year)

\* the dates the clock shows when the builder runs: a day of last season's
\* spring, and the days of the sync calendar
ClockDates == {[year |-> 2025, month |-> 4, day |-> 0]} \cup {DateOfDay(d) : d \in Days}

\* variant: findMany without gamesPlayed: { gt: 0 }
NatFindMany_AnyGames(rollupRows, league, season) ==
    {r \in rollupRows : r.league = league /\ r.season = season}

\* prisma.teamSeasonRollup.findMany({ where: { league, season, gamesPlayed: { gt: 0 } } })
NatFindMany(rollupRows, league, season) ==
    {r \in rollupRows : r.league = league /\ r.season = season /\ r.gamesPlayed > 0}

RECURSIVE SumTotal(_, _)
\* total<Col> += rollup.<col>Total over the rollups found
SumTotal(rows, c) ==
    IF rows = {} THEN 0
    ELSE LET r == CHOOSE x \in rows : TRUE
         IN r.totals[c] + SumTotal(rows \ {r}, c)

RECURSIVE SumGames(_)
\* totalGames += rollup.gamesPlayed
SumGames(rows) ==
    IF rows = {} THEN 0
    ELSE LET r == CHOOSE x \in rows : TRUE
         IN r.gamesPlayed + SumGames(rows \ {r})

RECURSIVE SumPerGame(_, _)
\* the earlier revision's loop: total<Col> += rollup.<col>Total / g
SumPerGame(rows, c) ==
    IF rows = {} THEN Frac(0, 1)
    ELSE LET r == CHOOSE x \in rows : TRUE
         IN FracAdd(Frac(r.totals[c], r.gamesPlayed), SumPerGame(rows \ {r}, c))

\* variant: the earlier revision (part_002): the mean over the teams of each
\* team's own per-game average
NatPerGame_MeanOfTeams(rows, c) ==
    LET t == SumPerGame(rows, c) IN Frac(t.num, t.den * Cardinality(rows))

\* nat<Col>Pg = totalGames > 0 ? total<Col> / totalGames : 0
NatPerGame(rows, c) ==
    IF SumGames(rows) > 0 THEN Frac(SumTotal(rows, c), SumGames(rows)) ELSE Frac(0, 1)

\* natPointsPgPerTeam = 2 * natOff2ptmPg + 3 * natOff3ptmPg + natOffFtmPg
NatPoints(pg) ==
    FracAdd(FracAdd(FracScale(2, pg["off2ptm"]), FracScale(3, pg["off3ptm"])), pg["offFtm"])

\* prisma.nationalAverages.upsert({ where: { league_season } }): overwrite
\* the thirteen figures, or create the row with them
averagesUpsert(avgRows, league, season, rows) ==
    LET pg == [c \in StatCols |-> NatPerGame(rows, c)]
        row == [league |-> league, season |-> season, pg |-> pg, points |-> NatPoints(pg)]
    IN {a \in avgRows : ~(a.league = league /\ a.season = season)} \cup {row}

NatLeague == Leagues[nat.li]

\* the for loop's continuation after the current league
NextLeague(n) ==
    IF n.li < Len(Leagues) THEN [n EXCEPT !.pc = "find", !.li = n.li + 1, !.found = {}]
    ELSE [n EXCEPT !.pc = "done", !.found = {}]

\* the cron entry or the admin route calls buildNationalAverages
NatStart ==
    /\ nat.pc = "idle"
    /\ \E now \in ClockDates :
         /\ DateLE(nat.today, now)
         /\ nat' = [NatIdle EXCEPT !.pc = "find", !.today = now,
                                   !.season = Some(getCurrentSeason(now)), !.li = 1]
    /\ UNCHANGED <<upstream, teams, games, stats, rollups, sync, proc, proc2, faults, covered,
                   doneBefore, overlap, track, averages, req, summary, other, calc, seasonRun, client, bootstrapStatus, boot>>

\* await prisma.teamSeasonRollup.findMany, then the empty check; a rejection
\* is caught by the league's catch
NatFind ==
    /\ nat.pc = "find"
    /\ \E ok \in BOOLEAN :
         LET found == NatFindMany(rollups, NatLeague, nat.season[1])
         IN /\ Fault(~ok)
            /\ nat' = IF ~ok \/ found = {} THEN NextLeague(nat)
                      ELSE [nat EXCEPT !.pc = "upsert", !.found = found]
    /\ UNCHANGED <<upstream, teams, games, stats, rollups, sync, proc, proc2, covered,
                   doneBefore, overlap, track, averages, req, summary, other, calc, seasonRun, client, bootstrapStatus, boot>>

\* await prisma.nationalAverages.upsert, then result[key] = { ... }
NatUpsert ==
    /\ nat.pc = "upsert"
    /\ \E ok \in BOOLEAN :
         /\ Fault(~ok)
         /\ averages' = IF ok THEN averagesUpsert(averages, NatLeague, nat.season[1], nat.found)
                        ELSE averages
         /\ nat' = IF ok
                   THEN NextLeague([nat EXCEPT !.result[NatLeague] =
                          Some([teamCount |-> Cardinality(nat.found),
                                totalGames |-> SumGames(nat.found),
                                pointsPerTeamPerGame |->
                                  NatPoints([c \in StatCols |-> NatPerGame(nat.found, c)])])])
                   ELSE NextLeague(nat)
    /\ UNCHANGED <<upstream, teams, games, stats, rollups, sync, proc, proc2, covered,
                   doneBefore, overlap, track, req, summary, other, calc, seasonRun, client, bootstrapStatus, boot>>

\* return result
NatReturn ==
    /\ nat.pc = "done"
    /\ nat' = [NatIdle EXCEPT !.today = nat.today]
    /\ UNCHANGED <<upstream, teams, games, stats, rollups, sync, proc, proc2, faults, covered,
                   doneBefore, overlap, track, averages, req, summary, other, calc, seasonRun, client, bootstrapStatus, boot>>

NatNext == NatStart \/ NatFind \/ NatUpsert \/ NatReturn

\* the rollups the builder is run on: for each of three teams, a rollup of
\* either season over nA games with the figures of one line and nB games
\* with the figures of the other
DrawnTeams == {<<"MENS", "T1">>, <<"MENS", "T2">>, <<"WOMENS", "T1">>}
DrawnSeasons == {SeasonLabel(2024), SeasonLabel(2025)}
DrawnRollup(t, season, nA, nB) ==
    LET figA == SideFigures(extractTeamStats(LineA)[1], extractTeamStats(LineB)[1])
        figB == SideFigures(extractTeamStats(LineB)[1], extractTeamStats(LineA)[1])
    IN [teamId |-> <<t[1], season, t[2], 0>>, league |-> t[1], season |-> season,
        gamesPlayed |-> nA + nB,
        totals |-> [c \in StatCols |-> nA * figA[c] + nB * figB[c]]]

InitAverages ==
    /\ upstream = [e \in Events |-> "pre"]
    /\ teams = {}
    /\ games = {}
    /\ stats = {}
    /\ \E season \in DrawnSeasons :
       \E n \in [DrawnTeams -> {x \in (0..MaxGames) \X (0..MaxGames) : x[1] + x[2] <= MaxGames}] :
         rollups = {DrawnRollup(t, season, n[t][1], n[t][2]) : t \in DrawnTeams}
    /\ sync = SyncIdle
    /\ proc = ProcIdle
    /\ proc2 = ProcIdle
    /\ covered = Null
    /\ doneBefore = {}
    /\ faults = 0
    /\ overlap = FALSE
    /\ track = FALSE
    /\ averages = {}
    /\ nat = NatIdle
    /\ req = ReqIdle
    /\ summary = [e \in Events |-> "down"]
    /\ other = [r \in {1, 2} |-> OtherIdle]
    /\ calc = CalcIdle
    /\ seasonRun = SeasonIdle
    /\ client = ClientIdle
    /\ bootstrapStatus = BootstrapInitial
    /\ boot = BootIdle

(***************************************************************************)
(* The client's fetchWithRetry under getGameSummary, one step per awaited  *)
(* call, and the processor's fetch step split at that await.               *)
(***************************************************************************)
MAX_RETRIES == 3

\* what the summary endpoint has for an event: nothing but errors, a body
\* whose home team carries no shooting figures, or the full boxscore
SummaryStates == {"down", "partial", "ready"}

\* how an attempt fails: the abort timer fires, the status is not 2xx, or
\* response.json() rejects
AttemptErrors == {"timeout", "http", "malformed"}

\* variant: the first failed attempt is thrown to the caller
AfterFailure_NoRetry(r, err) == [r EXCEPT !.pc = "thrown", !.lastError = Some(err)]

\* the catch block of an attempt: keep the error; sleep when attempts
\* remain, else the loop ends and lastError is thrown
AfterFailure(r, err) ==
    [r EXCEPT !.pc = IF r.attempt < MAX_RETRIES THEN "backoff" ELSE "thrown",
              !.lastError = Some(err)]

\* a team block of boxscore.teams and a competitor of the summary header;
\* a competitor's own id is not its team's id
TeamBlock(teamId, line) == [teamId |-> teamId, statistics |-> line]
Competitor(side, id, teamId) == [homeAway |-> side, id |-> id, teamId |-> teamId]

\* the first element of q satisfying Test, as Array.prototype.find
FirstIndex(q, Test(_)) ==
    LET idx == {i \in 1..Len(q) : Test(q[i])}
    IN IF idx = {} THEN 0 ELSE CHOOSE i \in idx : \A j \in idx : i <= j

\* variant: the other revisions of the client, which look for the block
\* whose team id is the competitor's own id
parseGameSummary_ByCompetitorId(response) ==
    IF Len(response.teams) < 2 THEN Null
    ELSE LET IsHome(c) == c.homeAway = "home"
             IsAway(c) == c.homeAway = "away"
             hc == FirstIndex(response.competitors, IsHome)
             ac == FirstIndex(response.competitors, IsAway)
             HomeBlock(t) == hc # 0 /\ t.teamId = Some(response.competitors[hc].id)
             AwayBlock(t) == ac # 0 /\ t.teamId = Some(response.competitors[ac].id)
             hb == FirstIndex(response.teams, HomeBlock)
             ab == FirstIndex(response.teams, AwayBlock)
             safeHome == response.teams[IF hb # 0 THEN hb ELSE 2]
             safeAway == response.teams[IF ab # 0 THEN ab ELSE 1]
         IN Some([home |-> [id |-> safeHome.teamId,
                            statistics |-> extractTeamStats(safeHome.statistics)],
                  away |-> [id |-> safeAway.teamId,
                            statistics |-> extractTeamStats(safeAway.statistics)]])

\* competitors.find(c => c.homeAway === side)?.team?.id
DeclaredTeamId(competitors, side) ==
    IF \A i \in 1..Len(competitors) : competitors[i].homeAway # side THEN Null
    ELSE competitors[CHOOSE i \in 1..Len(competitors) :
                       /\ competitors[i].homeAway = side
                       /\ \A j \in 1..(i - 1) : competitors[j].homeAway # side].teamId

\* teamId ? teams.find(t => t.team.id === teamId) : undefined, then the
\* positional block teams[fallback] for undefined
BlockOf(blocks, teamId, fallback) ==
    IF teamId = Null \/ \A i \in 1..Len(blocks) : blocks[i].teamId # teamId
    THEN blocks[fallback]
    ELSE blocks[CHOOSE i \in 1..Len(blocks) :
                  /\ blocks[i].teamId = teamId
                  /\ \A j \in 1..(i - 1) : blocks[j].teamId # teamId]

\* parseGameSummary: null for fewer than two team blocks; each side is the
\* block of the team the header declares for it, else teams[1] for home and
\* teams[0] for away
parseGameSummary(response) ==
    IF Len(response.teams) < 2 THEN Null
    ELSE \* safeHome and safeAway, each computed once
         CHOOSE parsed \in
           {Some([home |-> [id |-> safeHome.teamId,
                            statistics |-> extractTeamStats(safeHome.statistics)],
                  away |-> [id |-> safeAway.teamId,
                            statistics |-> extractTeamStats(safeAway.statistics)]]) :
              safeHome \in {BlockOf(response.teams,
                                    DeclaredTeamId(response.competitors, "home"), 2)},
              safeAway \in {BlockOf(response.teams,
                                    DeclaredTeamId(response.competitors, "away"), 1)}} : TRUE

\* the body the summary endpoint serves for event e in state st: the away
\* block first, as the provider lists them
SummaryBody(e, st) ==
    LET info == EventInfo(e)
    IN [teams |-> <<TeamBlock(Some(info.away), LineB),
                    TeamBlock(Some(info.home), IF st = "ready" THEN LineA ELSE NoStats)>>,
        competitors |-> <<Competitor("home", "c1", Some(info.home)),
                          Competitor("away", "c2", Some(info.away))>>]

\* getGameSummary: the parsed response, or null when getGameDetails threw
getGameSummary(r) ==
    IF r.pc = "thrown" THEN Null
    ELSE CHOOSE parsed \in {parseGameSummary(response) :
                              response \in {SummaryBody(r.event, r.response[1])}} : TRUE

\* client.getGameSummary -> getGameDetails -> fetchWithRetry: rateLimit,
\* then the loop starts at attempt 1
FetchCall ==
    /\ proc.pc = "fetch"
    /\ req.pc = "idle"
    /\ req' = [ReqIdle EXCEPT !.pc = "attempt", !.event = ProcGame.providerGameId,
                              !.attempt = 1]
    /\ proc' = [proc EXCEPT !.pc = "fetching"]
    /\ UNCHANGED <<upstream, teams, games, stats, rollups, sync, proc2, faults, covered,
                   doneBefore, overlap, track, averages, nat, summary, other, calc, seasonRun, client, bootstrapStatus, boot>>

\* await fetch(url) and response.json(): return the body, or catch
ReqAttempt ==
    /\ req.pc = "attempt"
    /\ IF summary[req.event] # "down"
       THEN req' = [req EXCEPT !.pc = "returned", !.response = Some(summary[req.event])]
       ELSE \E err \in AttemptErrors : req' = AfterFailure(req, err)
    /\ UNCHANGED <<upstream, teams, games, stats, rollups, sync, proc, proc2, faults, covered,
                   doneBefore, overlap, track, averages, nat, summary, other, calc, seasonRun, client, bootstrapStatus, boot>>

\* await sleep(attempt * 1000), then attempt++
ReqBackoff ==
    /\ req.pc = "backoff"
    /\ req' = [req EXCEPT !.pc = "attempt", !.slept = Append(@, req.attempt * 1000),
                          !.attempt = @ + 1]
    /\ UNCHANGED <<upstream, teams, games, stats, rollups, sync, proc, proc2, faults, covered,
                   doneBefore, overlap, track, averages, nat, summary, other, calc, seasonRun, client, bootstrapStatus, boot>>

\* getGameSummary returns to the processor, then the two skip checks
FetchResume ==
    /\ proc.pc = "fetching"
    /\ req.pc \in {"returned", "thrown"}
    /\ \E boxscore \in {getGameSummary(req)} :
         proc' = IF MissingData(boxscore) THEN SkipGame(proc)
                 ELSE [proc EXCEPT !.pc = "home", !.boxscore = boxscore]
    /\ req' = ReqIdle
    /\ UNCHANGED <<upstream, teams, games, stats, rollups, sync, proc2, faults, covered,
                   doneBefore, overlap, track, averages, nat, summary, other, calc, seasonRun, client, bootstrapStatus, boot>>

\* the provider's summary for a stored game changes
SummaryChange ==
    /\ \E g \in games, st \in SummaryStates :
         /\ st # summary[g.providerGameId]
         /\ summary' = [summary EXCEPT ![g.providerGameId] = st]
    /\ UNCHANGED <<upstream, teams, games, stats, rollups, sync, proc, proc2, faults, covered,
                   doneBefore, overlap, track, averages, nat, req, other, calc, seasonRun, client, bootstrapStatus, boot>>

FetchNext ==
    \/ ProcStart \/ FetchCall \/ ReqAttempt \/ ReqBackoff \/ FetchResume
    \/ ProcHome \/ ProcAway \/ ProcAggHome \/ ProcRollupHome
    \/ ProcAggAway \/ ProcRollupAway \/ ProcMark \/ ProcReturn
    \/ SummaryChange

\* the store a clean sync run leaves after seeing the events of es in the
\* states st
RECURSIVE SyncedStore(_, _)
SyncedStore(es, st) ==
    IF es = <<>> THEN [teams |-> {}, games |-> {}, rollups |-> {}]
    ELSE LET before == SyncedStore(SubSeq(es, 1, Len(es) - 1), st)
             e == es[Len(es)]
             event == parseEvent(RawEvent(e, st[e]))[1]
             league == EventInfo(e).league
             season == deriveSeasonFromDate(event.date)
             withHome == teamUpsert(before.teams, league, season, event.home.id,
                                    event.home.displayName)
             withAway == teamUpsert(withHome, league, season, event.away.id,
                                    event.away.displayName)
             homeId == (CHOOSE t \in teamFindUnique(withAway, league, season, event.home.id)
                          : TRUE).id
             awayId == (CHOOSE t \in teamFindUnique(withAway, league, season, event.away.id)
                          : TRUE).id
         IN IF st[e] = "none" THEN before
            ELSE [teams |-> withAway,
                  games |-> gameUpsert(before.games, league, season, event, homeId, awayId,
                                       "earlier"),
                  rollups |-> rollupEnsure(rollupEnsure(before.rollups, homeId, league, season),
                                           awayId, league, season)]

\* the processor runs on the store of an earlier sync; no storage call fails
InitFetch ==
    /\ \E st \in [Events -> {"none", "pre", "post"}] :
         LET synced == SyncedStore(<<"E1", "E2", "E3">>, st)
         IN /\ upstream = [e \in Events |-> IF st[e] = "post" THEN "post" ELSE "pre"]
            /\ teams = synced.teams
            /\ games = synced.games
            /\ rollups = synced.rollups
    /\ stats = {}
    /\ sync = SyncIdle
    /\ proc = ProcIdle
    /\ proc2 = ProcIdle
    /\ covered = Null
    /\ doneBefore = {}
    /\ faults = MaxFaults
    /\ overlap = FALSE
    /\ track = FALSE
    /\ averages = {}
    /\ nat = NatIdle
    /\ req = ReqIdle
    /\ summary = [e \in Events |-> "down"]
    /\ other = [r \in {1, 2} |-> OtherIdle]
    /\ calc = CalcIdle
    /\ seasonRun = SeasonIdle
    /\ client = ClientIdle
    /\ bootstrapStatus = BootstrapInitial
    /\ boot = BootIdle

(***************************************************************************)
(* Sync runs in progress together (an admin call during the scheduled      *)
(* run), each reduced to the body of its event loop, one step per awaited  *)
(* call; a run started by syncSeasonBothLeagues passes its season on.      *)
(***************************************************************************)
SyncRuns == {1, 2}

\* the seasons syncSeasonBothLeagues is called with
SeasonArgs == {SeasonLabel(2025)}

\* for (const event of events): season = forcedSeason ?? deriveSeasonFromDate;
\* the event is as the scoreboard served it to this run
OtherEvent(r) ==
    /\ other[r].pc = "idle"
    /\ \E e \in Events, forced \in {Null} \cup {Some(x) : x \in SeasonArgs} :
       \E st \in EventStates(e) \ {"bad"} :
         LET event == parseEvent(RawEvent(e, st))[1]
         IN other' = [other EXCEPT ![r] =
                        [OtherIdle EXCEPT
                           !.pc = "homeTeam", !.league = EventInfo(e).league,
                           !.season = Coalesce(forced, Some(deriveSeasonFromDate(event.date))),
                           !.event = Some(event)]]
    /\ UNCHANGED <<upstream, teams, games, stats, rollups, sync, proc, proc2, faults, covered,
                   doneBefore, overlap, track, averages, nat, req, summary, calc, seasonRun, client, bootstrapStatus, boot>>

\* await upsertTeam for the home team
OtherHomeTeam(r) ==
    /\ other[r].pc = "homeTeam"
    /\ LET o == other[r]
           t == o.event[1].home
       IN /\ teams' = upsertTeamTeams("ok", o.league, o.season[1], t)
          /\ rollups' = upsertTeamRollups("ok", o.league, o.season[1], t)
          /\ other' = [other EXCEPT ![r].pc = "awayTeam",
                          ![r].homeTeam = upsertTeamResult(o.league, o.season[1], t)]
    /\ UNCHANGED <<upstream, games, stats, sync, proc, proc2, faults, covered,
                   doneBefore, overlap, track, averages, nat, req, summary, calc, seasonRun, client, bootstrapStatus, boot>>

\* await upsertTeam for the away team
OtherAwayTeam(r) ==
    /\ other[r].pc = "awayTeam"
    /\ LET o == other[r]
           t == o.event[1].away
       IN /\ teams' = upsertTeamTeams("ok", o.league, o.season[1], t)
          /\ rollups' = upsertTeamRollups("ok", o.league, o.season[1], t)
          /\ other' = [other EXCEPT ![r].pc = "game",
                          ![r].awayTeam = upsertTeamResult(o.league, o.season[1], t)]
    /\ UNCHANGED <<upstream, games, stats, sync, proc, proc2, faults, covered,
                   doneBefore, overlap, track, averages, nat, req, summary, calc, seasonRun, client, bootstrapStatus, boot>>

\* await upsertGame
OtherGame(r) ==
    /\ other[r].pc = "game"
    /\ LET o == other[r]
       IN games' = gameUpsert(games, o.league, o.season[1], o.event[1],
                              o.homeTeam[1].id, o.awayTeam[1].id, "thisRun")
    /\ other' = [other EXCEPT ![r] = OtherIdle]
    /\ UNCHANGED <<upstream, teams, stats, rollups, sync, proc, proc2, faults, covered,
                   doneBefore, overlap, track, averages, nat, req, summary, calc, seasonRun, client, bootstrapStatus, boot>>

NextSeason ==
    \E r \in SyncRuns : OtherEvent(r) \/ OtherHomeTeam(r) \/ OtherAwayTeam(r) \/ OtherGame(r)

\* no call fails and the provider's events are well-formed
InitSeason == InitTables /\ faults = MaxFaults /\ overlap = TRUE /\ track = FALSE

\* two processor calls on the store of an earlier sync, the provider
\* correcting boxscores meanwhile; no call fails
InitRevise ==
    /\ \E st \in [Events -> {"none", "post"}] :
         LET synced == SyncedStore(<<"E1", "E2", "E3">>, st)
         IN /\ st["E1"] = "post" /\ st["E3"] = "none"
            /\ upstream = [e \in Events |-> IF st[e] = "post" THEN "post" ELSE "pre"]
            /\ teams = synced.teams
            /\ games = synced.games
            /\ rollups = synced.rollups
    /\ stats = {}
    /\ sync = SyncIdle
    /\ proc = ProcIdle
    /\ proc2 = ProcIdle
    /\ covered = Null
    /\ doneBefore = {}
    /\ faults = MaxFaults
    /\ overlap = FALSE
    /\ track = FALSE
    /\ averages = {}
    /\ nat = NatIdle
    /\ req = ReqIdle
    /\ summary = [e \in Events |-> "down"]
    /\ other = [r \in {1, 2} |-> OtherIdle]
    /\ calc = CalcIdle
    /\ seasonRun = SeasonIdle
    /\ client = ClientIdle
    /\ bootstrapStatus = BootstrapInitial
    /\ boot = BootIdle

NextRevise == ProcNext \/ Proc2Next \/ ProcFetchRevised \/ Proc2FetchRevised

(***************************************************************************)
(* syncSeasonBothLeagues.  A season argument is the string the caller      *)
(* passes, as its sequence of characters; an instant is its number of days *)
(* since 1 January 1970 (every instant of this job is a midnight UTC).     *)
(***************************************************************************)
MaxRunDays == 170

DigitChars == <<"0", "1", "2", "3", "4", "5", "6", "7", "8", "9">>
IsDigit(c) == \E d \in 1..10 : DigitChars[d] = c
DigitValue(c) == (CHOOSE d \in 1..10 : DigitChars[d] = c) - 1

\* parseInt(q, 10) of a string of digits
RECURSIVE parseInt(_)
parseInt(q) ==
    IF q = <<>> THEN 0
    ELSE 10 * parseInt(SubSeq(q, 1, Len(q) - 1)) + DigitValue(q[Len(q)])

\* String(n) of a number n >= 0
RECURSIVE NumberToString(_)
NumberToString(n) ==
    IF n < 10 THEN <<DigitChars[n + 1]>>
    ELSE NumberToString(n \div 10) \o <<DigitChars[(n % 10) + 1]>>

\* q.slice(0, k)
SliceTo(q, k) == SubSeq(q, 1, IF Len(q) < k THEN Len(q) ELSE k)

\* the day number of a calendar date (month 1..12) of the proleptic
\* Gregorian calendar
DaysFromCivil(year, month, day) ==
    LET y == IF month <= 2 THEN year - 1 ELSE year
        era == y \div 400
        yoe == y - era * 400
        mp == IF month > 2 THEN month - 3 ELSE month + 9
        doy == (153 * mp + 2) \div 5 + day - 1
        doe == yoe * 365 + yoe \div 4 - yoe \div 100 + doy
    IN era * 146097 + doe - 719468

\* Date.UTC(year, monthIndex, day): monthIndex counts from 0, and a year of
\* 0..99 is taken as 1900 + year
DateUTC(year, monthIndex, day) ==
    DaysFromCivil(IF year \in 0..99 THEN 1900 + year ELSE year, monthIndex + 1, day)

\* parseSeasonToYears: Null when it throws 'Invalid season format'
parseSeasonToYears(season) ==
    IF /\ Len(season) = 7
       /\ \A j \in {1, 2, 3, 4, 6, 7} : IsDigit(season[j])
       /\ season[5] = "-"
    THEN LET startYear == parseInt(SubSeq(season, 1, 4))
         IN Some([startYear |-> startYear,
                  endYear |-> parseInt(SliceTo(NumberToString(startYear), 2)
                                       \o SubSeq(season, 6, 7))])
    ELSE Null

\* defaultSeasonWindow: Nov 1 -> Apr 15
defaultSeasonWindow(season) ==
    LET years == parseSeasonToYears(season)
    IN IF years = Null THEN Null
       ELSE Some([start |-> DateUTC(years[1].startYear, 10, 1),
                  end |-> DateUTC(years[1].endYear, 3, 15)])

\* new Date(`${iso}T00:00:00.000Z`) of a date string year-month-day: Null
\* for the invalid date (getTime() is NaN).  The strings drawn keep the day
\* within the month
ParseISO(iso) ==
    IF iso.month \in 1..12 /\ iso.day \in 1..31
    THEN Some(DaysFromCivil(iso.year, iso.month, iso.day))
    ELSE Null

\* variant: without the test of end against start
syncSeasonBothLeagues_NoOrderTest(season, startISO, endISO) ==
    LET window == defaultSeasonWindow(season)
        start == IF startISO # Null THEN ParseISO(startISO[1]) ELSE Some(window[1].start)
        end == IF endISO # Null THEN ParseISO(endISO[1]) ELSE Some(window[1].end)
        call == [SeasonIdle EXCEPT !.season = season, !.startISO = startISO, !.endISO = endISO]
    IN IF window = Null
       THEN [call EXCEPT !.pc = "thrown", !.error = "Invalid season format"]
       ELSE IF start = Null \/ end = Null
       THEN [call EXCEPT !.pc = "thrown", !.error = "Invalid start or end date"]
       ELSE [call EXCEPT !.pc = IF end[1] - start[1] + 1 > 0 THEN "fetch" ELSE "done",
                         !.start = start[1], !.days = end[1] - start[1] + 1,
                         !.li = 1, !.i = 0]

\* syncSeasonBothLeagues up to its first awaited call: it throws, or it has
\* entered syncDateRangeBothLeagues (days = floor((end - start) / msPerDay) + 1)
\* and stands before the first getScoreboard
syncSeasonBothLeagues(season, startISO, endISO) ==
    LET window == defaultSeasonWindow(season)
        start == IF startISO # Null THEN ParseISO(startISO[1]) ELSE Some(window[1].start)
        end == IF endISO # Null THEN ParseISO(endISO[1]) ELSE Some(window[1].end)
        call == [SeasonIdle EXCEPT !.season = season, !.startISO = startISO, !.endISO = endISO]
    IN IF window = Null
       THEN [call EXCEPT !.pc = "thrown", !.error = "Invalid season format"]
       ELSE IF start = Null \/ end = Null
       THEN [call EXCEPT !.pc = "thrown", !.error = "Invalid start or end date"]
       ELSE IF end[1] < start[1]
       THEN [call EXCEPT !.pc = "thrown", !.error = "End date must be >= start date"]
       ELSE [call EXCEPT !.pc = "fetch", !.start = start[1],
                         !.days = end[1] - start[1] + 1, !.li = 1, !.i = 0]

\* the season arguments: well-formed labels (two of them at a change of
\* century), and strings the pattern rejects
SeasonStrings ==
    {<<"2", "0", "2", "5", "-", "2", "6">>, <<"2", "0", "2", "4", "-", "2", "5">>,
     <<"1", "9", "9", "9", "-", "0", "0">>, <<"2", "0", "9", "9", "-", "0", "0">>,
     <<"2", "0", "2", "5", "-", "2", "0", "2", "6">>, <<"2", "0", "2", "5", "/", "2", "6">>,
     <<"2", "5", "-", "2", "6">>, <<"2", "0", "2", "5", "-", "2", "x">>, <<>>}

\* the date arguments: absent, two days of November 2025 and one of
\* November 2099, and a string that is no date
DateStrings ==
    {Null}
    \cup {Some([year |-> 2025, month |-> 11, day |-> d]) : d \in {1, 3}}
    \cup {Some([year |-> 2099, month |-> 11, day |-> 2]),
          Some([year |-> 2025, month |-> 13, day |-> 1])}

\* what the provider lists in the season: two men's games on 1 November
\* 2025, a women's game on 3 November 2025
SeasonScoreboard(league, d) ==
    IF league = "MENS" /\ d = DaysFromCivil(2025, 11, 1) THEN <<"E1", "E2">>
    ELSE IF league = "WOMENS" /\ d = DaysFromCivil(2025, 11, 3) THEN <<"E3">>
    ELSE <<>>

SeasonEvent(e) ==
    [parseEvent(RawEvent(e, "pre"))[1] EXCEPT
       !.date = [year |-> 2025, month |-> 11, day |-> IF e = "E3" THEN 3 ELSE 1]]

\* the body of the event loop for the events es of one date, every call
\* succeeding
RECURSIVE SeasonUpserts(_, _, _, _)
SeasonUpserts(st, league, season, es) ==
    IF es = <<>> THEN st
    ELSE LET before == SeasonUpserts(st, league, season, SubSeq(es, 1, Len(es) - 1))
             event == SeasonEvent(es[Len(es)])
             withHome == teamUpsert(before.teams, league, season, event.home.id,
                                    event.home.displayName)
             withAway == teamUpsert(withHome, league, season, event.away.id,
                                    event.away.displayName)
             homeId == (CHOOSE t \in teamFindUnique(withAway, league, season, event.home.id)
                          : TRUE).id
             awayId == (CHOOSE t \in teamFindUnique(withAway, league, season, event.away.id)
                          : TRUE).id
         IN [teams |-> withAway,
             games |-> gameUpsert(before.games, league, season, event, homeId, awayId,
                                  "thisRun"),
             rollups |-> rollupEnsure(rollupEnsure(before.rollups, homeId, league, season),
                                      awayId, league, season)]

\* the call: the arguments are validated and the range is computed
SeasonCall ==
    /\ seasonRun.pc = "idle"
    /\ \E season \in SeasonStrings, startISO \in DateStrings, endISO \in DateStrings :
         /\ seasonRun' = syncSeasonBothLeagues(season, startISO, endISO)
         /\ seasonRun'.days <= MaxRunDays
    /\ UNCHANGED <<upstream, teams, games, stats, rollups, sync, proc, proc2, faults, covered,
                   doneBefore, overlap, track, averages, nat, req, summary, other, calc, client, bootstrapStatus, boot>>

\* one date of one league: getScoreboard, then the event loop over what it
\* listed (the run is alone, so the loop is taken in one step)
SeasonDate ==
    /\ seasonRun.pc = "fetch"
    /\ LET league == Leagues[seasonRun.li]
           d == seasonRun.start + seasonRun.i
           after == SeasonUpserts([teams |-> teams, games |-> games, rollups |-> rollups],
                                  league, seasonRun.season, SeasonScoreboard(league, d))
           r == [seasonRun EXCEPT !.fetched = @ \cup {<<league, d>>}]
       IN /\ teams' = after.teams
          /\ games' = after.games
          /\ rollups' = after.rollups
          /\ seasonRun' = IF r.i + 1 < r.days THEN [r EXCEPT !.i = r.i + 1]
                          ELSE IF r.li < Len(Leagues) THEN [r EXCEPT !.li = r.li + 1, !.i = 0]
                          ELSE [r EXCEPT !.pc = "done"]
    /\ UNCHANGED <<upstream, stats, sync, proc, proc2, faults, covered,
                   doneBefore, overlap, track, averages, nat, req, summary, other, calc, client, bootstrapStatus, boot>>

SeasonNext == SeasonCall \/ SeasonDate

InitSeasonRun == InitTables /\ faults = MaxFaults /\ overlap = FALSE /\ track = FALSE

(***************************************************************************)
(* ESPNClient.rateLimit and fetchWithRetry in time.  Times are in ms.  A   *)
(* caller that waits (sleep, fetch) has a wake time; the clock moves to    *)
(* the earliest wake time when no waiting caller is due.                   *)
(***************************************************************************)
RATE_LIMIT_MIN_MS == 300
RATE_LIMIT_MAX_MS == 500
MaxCalls == 2

\* Math.floor(Math.random() * (max - min + 1)) + min: the ends and the middle
\* of the range stand for its values
randomDelay(min, max) == {min, (min + max) \div 2, max}

\* how long the provider takes to answer or to fail, below FETCH_TIMEOUT_MS
Durations == {100, 600}

\* fetch(url, ...) at the present time, the k-th attempt of caller c
StartAttempt(cl, c, k) ==
    \E d \in Durations :
        client' = [cl EXCEPT !.prevStart = cl.lastStart,
                             !.lastStart = Some(cl.now),
                             !.call[c].pc = "fetch",
                             !.call[c].attempt = k,
                             !.call[c].wake = cl.now + d]

ClientFrame ==
    UNCHANGED <<upstream, teams, games, stats, rollups, sync, proc, proc2, faults, covered,
                doneBefore, overlap, track, averages, nat, req, summary, other, calc,
                seasonRun, bootstrapStatus, boot>>

\* fetchWithRetry called: rateLimit up to its await sleep, or through to the
\* first fetch when it has nothing to wait for
ClientCall(c) ==
    /\ client.call[c].pc = "idle"
    /\ client.call[c].calls < MaxCalls
    /\ \E delay \in randomDelay(RATE_LIMIT_MIN_MS, RATE_LIMIT_MAX_MS) :
         LET elapsed == client.now - client.lastRequestTime
         IN IF elapsed < delay
            THEN client' = [client EXCEPT !.call[c].pc = "sleep",
                                          !.call[c].wake = client.now + (delay - elapsed)]
            ELSE StartAttempt([client EXCEPT !.lastRequestTime = client.now], c, 1)
    /\ ClientFrame

\* rateLimit after its sleep: this.lastRequestTime = Date.now(); then the
\* first fetch
ClientWake(c) ==
    /\ client.call[c].pc = "sleep"
    /\ client.call[c].wake <= client.now
    /\ StartAttempt([client EXCEPT !.lastRequestTime = client.now], c, 1)
    /\ ClientFrame

\* the fetch settles: the body is returned, or the failure is caught and the
\* backoff sleep begins, or the last failure is thrown
ClientResponse(c) ==
    /\ client.call[c].pc = "fetch"
    /\ client.call[c].wake <= client.now
    /\ \E ok \in BOOLEAN :
         client' = IF ok \/ client.call[c].attempt >= MAX_RETRIES
                   THEN [client EXCEPT !.call[c].pc = "idle",
                                       !.call[c].attempt = 0,
                                       !.call[c].calls = @ + 1]
                   ELSE [client EXCEPT !.call[c].pc = "backoff",
                                       !.call[c].wake = client.now + client.call[c].attempt * 1000]
    /\ ClientFrame

\* after await sleep(backoff): the next attempt's fetch
ClientRetry(c) ==
    /\ client.call[c].pc = "backoff"
    /\ client.call[c].wake <= client.now
    /\ StartAttempt(client, c, client.call[c].attempt + 1)
    /\ ClientFrame

\* time passes until the next waiting caller is due
ClientTime ==
    LET waiting == {c \in Callers : client.call[c].pc # "idle"}
    IN /\ waiting # {}
       /\ \A c \in waiting : client.call[c].wake > client.now
       /\ \E c \in waiting :
            /\ \A o \in waiting : client.call[c].wake <= client.call[o].wake
            /\ client' = [client EXCEPT !.now = client.call[c].wake]
       /\ ClientFrame

ClientNext ==
    \/ \E c \in Callers : ClientCall(c)
    \/ \E c \in Callers : ClientWake(c)
    \/ \E c \in Callers : ClientResponse(c)
    \/ \E c \in Callers : ClientRetry(c)
    \/ ClientTime

\* the calls of two runs through the one client, the store left alone
InitClient == InitTables /\ faults = MaxFaults /\ overlap = TRUE /\ track = FALSE

SpecClient == InitClient /\ [][ClientNext]_vars

(***************************************************************************)
(* bootstrap.ts: runStartupBootstrap, called once when the server starts,  *)
(* and runBootstrapWithRetries, one step per await.  The sync it awaits is *)
(* the sync run of the steps above.                                        *)
(***************************************************************************)
BootFrame ==
    UNCHANGED <<upstream, teams, games, stats, rollups, sync, proc, proc2, faults, covered,
                doneBefore, overlap, track, averages, nat, req, summary, other, calc,
                seasonRun, client>>

\* variant: no retry
AfterCatch_GivesUp(attempt, maxRetries) == "failed"

\* if (attempt < maxRetries) await sleep(delay), and the loop's test
AfterCatch(attempt, maxRetries) == IF attempt < maxRetries THEN "sleep" ELSE "failed"

\* the setImmediate callback after its sleep: isRunning, lastRunAt, runCount++
BootBegin ==
    /\ boot.pc = "idle"
    /\ bootstrapStatus' = [bootstrapStatus EXCEPT !.isRunning = TRUE,
                                                  !.lastRunAt = Some(boot.clock),
                                                  !.runCount = @ + 1]
    /\ boot' = [boot EXCEPT !.pc = "attempt", !.attempt = 1, !.clock = @ + 1]
    /\ BootFrame

\* syncSchedules(days) called: today through the model's last day
BootSync ==
    /\ boot.pc = "attempt"
    /\ syncDateRangeBothLeagues(0, NumDays - 1, Null)
    /\ boot' = [boot EXCEPT !.pc = "sync"]
    /\ UNCHANGED bootstrapStatus

\* catch (err): the awaited call rejected; sleep before the next attempt, or
\* leave the loop after the last
BootThrow ==
    /\ boot.pc = "attempt"
    /\ sync.pc = "idle"
    /\ boot' = [boot EXCEPT !.pc = AfterCatch(boot.attempt, 3),
                            !.lastError = Some("rejected"),
                            !.outcomes = Append(@, "threw")]
    /\ UNCHANGED bootstrapStatus
    /\ BootFrame

\* after await sleep(delay): attempt++
BootRetry ==
    /\ boot.pc = "sleep"
    /\ boot' = [boot EXCEPT !.pc = "attempt", !.attempt = @ + 1]
    /\ UNCHANGED bootstrapStatus
    /\ BootFrame

\* the awaited sync returned: lastSuccessAt, lastError = null, return
BootSuccess ==
    /\ boot.pc = "sync"
    /\ SyncResult
    /\ bootstrapStatus' = [bootstrapStatus EXCEPT !.lastSuccessAt = Some(boot.clock),
                                                  !.lastError = Null]
    /\ boot' = [boot EXCEPT !.pc = "finally", !.clock = @ + 1,
                            !.outcomes = Append(@, "returned"),
                            !.returned = Some(sync.totalErrors)]

\* after the loop: lastErrorAt, lastError = lastError?.message || 'Unknown error'
BootFail ==
    /\ boot.pc = "failed"
    /\ bootstrapStatus' = [bootstrapStatus EXCEPT
                             !.lastErrorAt = Some(boot.clock),
                             !.lastError = Coalesce(boot.lastError, Some("Unknown error"))]
    /\ boot' = [boot EXCEPT !.pc = "finally", !.clock = @ + 1]
    /\ BootFrame

\* finally: isRunning = false
BootFinally ==
    /\ boot.pc = "finally"
    /\ bootstrapStatus' = [bootstrapStatus EXCEPT !.isRunning = FALSE]
    /\ boot' = [boot EXCEPT !.pc = "ended"]
    /\ BootFrame

\* the steps of a started run, the awaited sync's among them
BootRun ==
    \/ BootSync \/ BootThrow \/ BootRetry \/ BootSuccess \/ BootFail \/ BootFinally
    \/ SyncFetch \/ SyncHomeTeam \/ SyncAwayTeam \/ SyncGame

BootNext == BootBegin \/ BootRun

\* the server's start: an empty store, one fetch or storage call failing at
\* most; every pending continuation of the run is eventually taken
SpecBootstrap == Init /\ [][BootNext]_vars /\ WF_vars(BootRun)

(***************************************************************************)
(* lib/calculations.ts.  Numbers are fractions; the drawn figures are      *)
(* whole, so every result is a multiple of a quarter.                      *)
(***************************************************************************)
Whole(n) == Frac(n, 1)
FracSub(a, b) == Frac(a.num * b.den - b.num * a.den, a.den * b.den)
FracHalf(a) == Frac(a.num, 2 * a.den)

\* variant: the makes alone, without the attempts
calculateDifferentials_MadeOnly(teamStats, nationals) ==
    LET Diff(made, att) == FracSub(teamStats[made], nationals.pg[made])
    IN [off2ptDiff |-> Diff("off2ptm", "off2pta"),
        off3ptDiff |-> Diff("off3ptm", "off3pta"),
        offFtDiff |-> Diff("offFtm", "offFta"),
        def2ptDiff |-> Diff("def2ptmAllowed", "def2ptaAllowed"),
        def3ptDiff |-> Diff("def3ptmAllowed", "def3ptaAllowed"),
        defFtDiff |-> Diff("defFtmAllowed", "defFtaAllowed")]

\* calculateDifferentials; nationals.pg[c] is the national per-game figure
\* of column c (natOff2ptmPg for off2ptm, and so on)
calculateDifferentials(teamStats, nationals) ==
    LET Diff(made, att) ==
          FracSub(FracAdd(teamStats[made], teamStats[att]),
                  FracAdd(nationals.pg[made], nationals.pg[att]))
    IN [off2ptDiff |-> Diff("off2ptm", "off2pta"),
        off3ptDiff |-> Diff("off3ptm", "off3pta"),
        offFtDiff |-> Diff("offFtm", "offFta"),
        def2ptDiff |-> Diff("def2ptmAllowed", "def2ptaAllowed"),
        def3ptDiff |-> Diff("def3ptmAllowed", "def3ptaAllowed"),
        defFtDiff |-> Diff("defFtmAllowed", "defFtaAllowed")]

FracMul(a, b) == Frac(a.num * b.num, a.den * b.den)
FracDiv(a, b) == Frac(a.num * b.den, a.den * b.num)
FracNeg(a) == Frac(0 - a.num, a.den)
FracAbs(a) == Frac(IF a.num < 0 THEN 0 - a.num ELSE a.num, IF a.den < 0 THEN 0 - a.den ELSE a.den)
FracPositive(a) == a.num * a.den > 0

\* variant: the formula of positive odds for negative odds too
calculateBetProfit_OneFormula(stake, odds, result) ==
    IF result = "push" THEN Whole(0)
    ELSE IF result = "loss" THEN FracNeg(stake)
    ELSE FracMul(stake, FracDiv(FracAbs(odds), Whole(100)))

\* calculateBetProfit
calculateBetProfit(stake, odds, result) ==
    IF result = "push" THEN Whole(0)
    ELSE IF result = "loss" THEN FracNeg(stake)
    ELSE IF FracPositive(odds) THEN FracMul(stake, FracDiv(odds, Whole(100)))
    ELSE FracMul(stake, FracDiv(Whole(100), FracAbs(odds)))

\* variant: every adjustment with weight 1
calculateTeamExpected_Unweighted(teamDiffs, opponentDiffs, natPointsPerTeam) ==
    LET twoPointAdj == FracHalf(FracAdd(teamDiffs.off2ptDiff, opponentDiffs.def2ptDiff))
        threePointAdj == FracHalf(FracAdd(teamDiffs.off3ptDiff, opponentDiffs.def3ptDiff))
        freeThrowAdj == FracHalf(FracAdd(teamDiffs.offFtDiff, opponentDiffs.defFtDiff))
    IN [adjustments |-> [twoPoint |-> twoPointAdj, threePoint |-> threePointAdj,
                         freeThrow |-> freeThrowAdj],
        expectedPoints |-> FracAdd(natPointsPerTeam,
                                   FracAdd(FracAdd(twoPointAdj, threePointAdj), freeThrowAdj))]

\* calculateTeamExpected
calculateTeamExpected(teamDiffs, opponentDiffs, natPointsPerTeam) ==
    LET twoPointAdj == FracHalf(FracAdd(teamDiffs.off2ptDiff, opponentDiffs.def2ptDiff))
        threePointAdj ==
          FracScale(3, FracHalf(FracHalf(FracAdd(teamDiffs.off3ptDiff,
                                                 opponentDiffs.def3ptDiff))))
        freeThrowAdj ==
          FracHalf(FracHalf(FracAdd(teamDiffs.offFtDiff, opponentDiffs.defFtDiff)))
        totalAdjustment == FracAdd(FracAdd(twoPointAdj, threePointAdj), freeThrowAdj)
    IN [adjustments |-> [twoPoint |-> twoPointAdj, threePoint |-> threePointAdj,
                         freeThrow |-> freeThrowAdj],
        expectedPoints |-> FracAdd(natPointsPerTeam, totalAdjustment)]

\* variant: the second team's expectation against the first team's offence
calculateGameTotal_OffenceForDefence(a) ==
    LET team1Diffs == calculateDifferentials(a.team1Stats, a.nationals)
        team2Diffs == calculateDifferentials(a.team2Stats, a.nationals)
        asDefence == [team1Diffs EXCEPT !.def2ptDiff = team1Diffs.off2ptDiff,
                                        !.def3ptDiff = team1Diffs.off3ptDiff,
                                        !.defFtDiff = team1Diffs.offFtDiff]
        team1Expected == calculateTeamExpected(team1Diffs, team2Diffs,
                                               a.nationals.natPointsPgPerTeam)
        team2Expected == calculateTeamExpected(team2Diffs, asDefence,
                                               a.nationals.natPointsPgPerTeam)
    IN [team1 |-> [name |-> a.team1Name, expectedPoints |-> team1Expected.expectedPoints,
                   adjustments |-> team1Expected.adjustments, differentials |-> team1Diffs],
        team2 |-> [name |-> a.team2Name, expectedPoints |-> team2Expected.expectedPoints,
                   adjustments |-> team2Expected.adjustments, differentials |-> team2Diffs],
        expectedTotal |-> FracAdd(team1Expected.expectedPoints, team2Expected.expectedPoints),
        nationalAverages |-> a.nationals]

\* calculateGameTotal(team1Stats, team1Name, team2Stats, team2Name, nationals)
calculateGameTotal(a) ==
    LET team1Diffs == calculateDifferentials(a.team1Stats, a.nationals)
        team2Diffs == calculateDifferentials(a.team2Stats, a.nationals)
        team1Expected == calculateTeamExpected(team1Diffs, team2Diffs,
                                               a.nationals.natPointsPgPerTeam)
        team2Expected == calculateTeamExpected(team2Diffs, team1Diffs,
                                               a.nationals.natPointsPgPerTeam)
    IN [team1 |-> [name |-> a.team1Name, expectedPoints |-> team1Expected.expectedPoints,
                   adjustments |-> team1Expected.adjustments, differentials |-> team1Diffs],
        team2 |-> [name |-> a.team2Name, expectedPoints |-> team2Expected.expectedPoints,
                   adjustments |-> team2Expected.adjustments, differentials |-> team2Diffs],
        expectedTotal |-> FracAdd(team1Expected.expectedPoints, team2Expected.expectedPoints),
        nationalAverages |-> a.nationals]

(***************************************************************************)
(* Calls of the pure functions, each on an argument drawn from a bounded   *)
(* set.                                                                    *)
(***************************************************************************)
\* summary bodies: the two team blocks in either order, or one block only;
\* the header naming either team as home, each competitor with or without
\* its team, its own id the team's id or not
SummaryInputs ==
    LET blocks == {<<TeamBlock(Some("T1"), LineA), TeamBlock(Some("T2"), LineB)>>,
                   <<TeamBlock(Some("T2"), LineB), TeamBlock(Some("T1"), LineA)>>,
                   <<TeamBlock(Some("T1"), LineA)>>}
        Opp(t) == IF t = "T1" THEN "T2" ELSE "T1"
        headers == {<<Competitor("home", IF own THEN "c1" ELSE h,
                                 IF hasH THEN Some(h) ELSE Null),
                      Competitor("away", IF own THEN "c2" ELSE Opp(h),
                                 IF hasA THEN Some(Opp(h)) ELSE Null)>>
                    : h \in {"T1", "T2"}, own \in BOOLEAN, hasH \in BOOLEAN, hasA \in BOOLEAN}
                   \cup {<<>>}
    IN {[teams |-> b, competitors |-> c] : b \in blocks, c \in headers}

\* parsed events as mapGameStatus sees them: the provider's three states and
\* two it does not list, with the status names of the model
StatusInputs ==
    [completed : BOOLEAN,
     statusState : {"pre", "in", "post", "postponed", "delayed"},
     statusName : {"STATUS_SCHEDULED", "STATUS_IN_PROGRESS", "STATUS_FINAL", "STATUS_DELAYED",
                   "STATUS_POSTPONED", "status_postponed", "STATUS_CANCELED",
                   "STATUS_CANCELLED", "STATUS_POSTPONED_THEN_CANCELED"}]

\* calendar dates: every month of four years, two of them at a change of
\* century
DateInputs == [year : {1999, 2025, 2026, 2099}, month : 1..12, day : {1}]

\* differentials: each of the six figures the expectation reads is below,
\* at or above the average; the six it does not read are all 0 or all 7
DiffValues == {-3, 0, 10}
ExpectedInputs ==
    {[teamDiffs |-> [off2ptDiff |-> Whole(o2), off3ptDiff |-> Whole(o3),
                     offFtDiff |-> Whole(oF), def2ptDiff |-> Whole(rest),
                     def3ptDiff |-> Whole(rest), defFtDiff |-> Whole(rest)],
      opponentDiffs |-> [off2ptDiff |-> Whole(rest), off3ptDiff |-> Whole(rest),
                         offFtDiff |-> Whole(rest), def2ptDiff |-> Whole(d2),
                         def3ptDiff |-> Whole(d3), defFtDiff |-> Whole(dF)],
      natPointsPerTeam |-> Whole(75)]
     : o2 \in DiffValues, o3 \in DiffValues, oF \in DiffValues,
       d2 \in DiffValues, d3 \in DiffValues, dF \in {0, 10}, rest \in {0, 7}}

\* the national averages and team figures of the calculation's tests, and
\* teams above the average in offence, in what they allow, or in both
TestNationals ==
    [pg |-> [c \in StatCols |->
               Whole(IF c \in {"off2ptm", "def2ptmAllowed"} THEN 20
                     ELSE IF c \in {"off2pta", "def2ptaAllowed"} THEN 40
                     ELSE IF c \in {"off3ptm", "def3ptmAllowed"} THEN 8
                     ELSE IF c \in {"off3pta", "def3ptaAllowed"} THEN 22
                     ELSE IF c \in {"offFtm", "defFtmAllowed"} THEN 14
                     ELSE 20)],
     natPointsPgPerTeam |-> Whole(75)]
AvgTeamStats == TestNationals.pg
GoodOffense ==
    [AvgTeamStats EXCEPT !["off2ptm"] = Whole(25), !["off2pta"] = Whole(45),
                         !["off3ptm"] = Whole(10), !["off3pta"] = Whole(25)]
BadDefense ==
    [AvgTeamStats EXCEPT !["def2ptmAllowed"] = Whole(25), !["def2ptaAllowed"] = Whole(45),
                         !["def3ptmAllowed"] = Whole(10), !["def3ptaAllowed"] = Whole(25)]
Uneven ==
    [AvgTeamStats EXCEPT !["off3ptm"] = Whole(9), !["offFta"] = Whole(17),
                         !["def2ptaAllowed"] = Whole(37), !["defFtmAllowed"] = Whole(15)]
GameInputs ==
    [team1Stats : {AvgTeamStats, GoodOffense, BadDefense, Uneven}, team1Name : {"A"},
     team2Stats : {AvgTeamStats, GoodOffense, BadDefense, Uneven}, team2Name : {"B"},
     nationals : {TestNationals}]

\* team figures against two sets of national averages: the tests' own, and
\* one whose twelve columns all differ; the teams of the tests (average,
\* above, below, good defence) and one with odd differences
DifferentialInputs ==
    LET skewed == [TestNationals EXCEPT
                     !.pg = [c \in StatCols |->
                               Whole(CHOOSE k \in 1..12 :
                                       <<"off2ptm", "off2pta", "off3ptm", "off3pta", "offFtm",
                                         "offFta", "def2ptmAllowed", "def2ptaAllowed",
                                         "def3ptmAllowed", "def3ptaAllowed", "defFtmAllowed",
                                         "defFtaAllowed">>[k] = c)]]
        belowAvg == [AvgTeamStats EXCEPT !["off2ptm"] = Whole(15), !["off2pta"] = Whole(35)]
        goodDefense ==
          [AvgTeamStats EXCEPT !["def2ptmAllowed"] = Whole(15), !["def2ptaAllowed"] = Whole(35),
                               !["def3ptmAllowed"] = Whole(6), !["def3ptaAllowed"] = Whole(20)]
    IN [teamStats : {AvgTeamStats, GoodOffense, BadDefense, Uneven, belowAvg, goodDefense,
                     skewed.pg},
        nationals : {TestNationals, skewed}]

\* stakes and American odds (never 0), with each of the three results
BetInputs ==
    [stake : {Whole(0), Whole(50), Whole(100), Whole(110), Frac(25, 2)},
     odds : {Whole(-200), Whole(-150), Whole(-110), Whole(-100), Whole(100), Whole(150),
             Whole(200)},
     result : {"win", "loss", "push"}]

\* the call is made
CalcCall ==
    \/ \E a \in SummaryInputs : calc = [op |-> "parseGameSummary", arg |-> a, out |-> Null]
    \/ \E a \in StatusInputs : calc = [op |-> "mapGameStatus", arg |-> a, out |-> Null]
    \/ \E a \in DateInputs : calc = [op |-> "getCurrentSeason", arg |-> a, out |-> Null]
    \/ \E a \in DateInputs : calc = [op |-> "deriveSeasonFromDate", arg |-> a, out |-> Null]
    \/ \E a \in ExpectedInputs :
         calc = [op |-> "calculateTeamExpected", arg |-> a, out |-> Null]
    \/ \E a \in GameInputs : calc = [op |-> "calculateGameTotal", arg |-> a, out |-> Null]
    \/ \E a \in DifferentialInputs :
         calc = [op |-> "calculateDifferentials", arg |-> a, out |-> Null]
    \/ \E a \in BetInputs : calc = [op |-> "calculateBetProfit", arg |-> a, out |-> Null]

CalcParseGameSummary ==
    /\ calc.op = "parseGameSummary" /\ calc.out = Null
    /\ calc' = [calc EXCEPT !.out = Some(parseGameSummary(calc.arg))]
    /\ UNCHANGED <<upstream, teams, games, stats, rollups, sync, proc, proc2, faults, covered,
                   doneBefore, overlap, track, averages, nat, req, summary, other, seasonRun, client, bootstrapStatus, boot>>

CalcMapGameStatus ==
    /\ calc.op = "mapGameStatus" /\ calc.out = Null
    /\ calc' = [calc EXCEPT !.out = Some(mapGameStatus(calc.arg))]
    /\ UNCHANGED <<upstream, teams, games, stats, rollups, sync, proc, proc2, faults, covered,
                   doneBefore, overlap, track, averages, nat, req, summary, other, seasonRun, client, bootstrapStatus, boot>>

CalcGetCurrentSeason ==
    /\ calc.op = "getCurrentSeason" /\ calc.out = Null
    /\ calc' = [calc EXCEPT !.out = Some(getCurrentSeason(calc.arg))]
    /\ UNCHANGED <<upstream, teams, games, stats, rollups, sync, proc, proc2, faults, covered,
                   doneBefore, overlap, track, averages, nat, req, summary, other, seasonRun, client, bootstrapStatus, boot>>

CalcDeriveSeasonFromDate ==
    /\ calc.op = "deriveSeasonFromDate" /\ calc.out = Null
    /\ calc' = [calc EXCEPT !.out = Some(deriveSeasonFromDate(calc.arg))]
    /\ UNCHANGED <<upstream, teams, games, stats, rollups, sync, proc, proc2, faults, covered,
                   doneBefore, overlap, track, averages, nat, req, summary, other, seasonRun, client, bootstrapStatus, boot>>

CalcCalculateTeamExpected ==
    /\ calc.op = "calculateTeamExpected" /\ calc.out = Null
    /\ calc' = [calc EXCEPT !.out = Some(calculateTeamExpected(calc.arg.teamDiffs,
                                                               calc.arg.opponentDiffs,
                                                               calc.arg.natPointsPerTeam))]
    /\ UNCHANGED <<upstream, teams, games, stats, rollups, sync, proc, proc2, faults, covered,
                   doneBefore, overlap, track, averages, nat, req, summary, other, seasonRun, client, bootstrapStatus, boot>>

CalcCalculateGameTotal ==
    /\ calc.op = "calculateGameTotal" /\ calc.out = Null
    /\ calc' = [calc EXCEPT !.out = Some(calculateGameTotal(calc.arg))]
    /\ UNCHANGED <<upstream, teams, games, stats, rollups, sync, proc, proc2, faults, covered,
                   doneBefore, overlap, track, averages, nat, req, summary, other, seasonRun, client, bootstrapStatus, boot>>

CalcCalculateDifferentials ==
    /\ calc.op = "calculateDifferentials" /\ calc.out = Null
    /\ calc' = [calc EXCEPT !.out = Some(calculateDifferentials(calc.arg.teamStats,
                                                                calc.arg.nationals))]
    /\ UNCHANGED <<upstream, teams, games, stats, rollups, sync, proc, proc2, faults, covered,
                   doneBefore, overlap, track, averages, nat, req, summary, other, seasonRun, client, bootstrapStatus, boot>>

CalcCalculateBetProfit ==
    /\ calc.op = "calculateBetProfit" /\ calc.out = Null
    /\ calc' = [calc EXCEPT !.out = Some(calculateBetProfit(calc.arg.stake, calc.arg.odds,
                                                            calc.arg.result))]
    /\ UNCHANGED <<upstream, teams, games, stats, rollups, sync, proc, proc2, faults, covered,
                   doneBefore, overlap, track, averages, nat, req, summary, other, seasonRun, client, bootstrapStatus, boot>>

\* field-goal and three-point figures, the tests' among them, and figures
\* with more three-pointers than field goals
DeriveInputs == [fgm : {0, 3, 30}, fga : {0, 5, 60}, threePtm : {0, 1, 8}, threePta : {0, 2, 20}]

CalcDerive2ptFromFg ==
    /\ calc.op = "derive2ptFromFg" /\ calc.out = Null
    /\ calc' = [calc EXCEPT !.out = Some(derive2ptFromFg(calc.arg.fgm, calc.arg.fga,
                                                         calc.arg.threePtm, calc.arg.threePta))]
    /\ UNCHANGED <<upstream, teams, games, stats, rollups, sync, proc, proc2, faults, covered,
                   doneBefore, overlap, track, averages, nat, req, summary, other, seasonRun, client, bootstrapStatus, boot>>

\* the processor on the store of an earlier sync that saw E1 finished, one
\* call after the other, one storage call failing at most and the provider
\* correcting a boxscore meanwhile; beside it a call of derive2ptFromFg
InitDerive ==
    /\ LET synced == SyncedStore(<<"E1">>, [e \in Events |-> "post"])
       IN /\ teams = synced.teams
          /\ games = synced.games
          /\ rollups = synced.rollups
    /\ upstream = [e \in Events |-> IF e = "E1" THEN "post" ELSE "pre"]
    /\ stats = {}
    /\ sync = SyncIdle
    /\ proc = ProcIdle
    /\ proc2 = ProcIdle
    /\ covered = Null
    /\ doneBefore = {}
    /\ faults = 0
    /\ overlap = FALSE
    /\ track = FALSE
    /\ averages = {}
    /\ nat = NatIdle
    /\ req = ReqIdle
    /\ summary = [e \in Events |-> "down"]
    /\ other = [r \in {1, 2} |-> OtherIdle]
    /\ seasonRun = SeasonIdle
    /\ client = ClientIdle
    /\ bootstrapStatus = BootstrapInitial
    /\ boot = BootIdle
    /\ \E a \in DeriveInputs : calc = [op |-> "derive2ptFromFg", arg |-> a, out |-> Null]

NextDerive == ProcNext \/ ProcFetchRevised \/ CalcDerive2ptFromFg

CalcNext ==
    \/ CalcCalculateDifferentials
    \/ CalcCalculateBetProfit
    \/ CalcParseGameSummary
    \/ CalcMapGameStatus
    \/ CalcGetCurrentSeason
    \/ CalcDeriveSeasonFromDate
    \/ CalcCalculateTeamExpected
    \/ CalcCalculateGameTotal

InitCalc ==
    /\ upstream = [e \in Events |-> "pre"]
    /\ teams = {}
    /\ games = {}
    /\ stats = {}
    /\ rollups = {}
    /\ sync = SyncIdle
    /\ proc = ProcIdle
    /\ proc2 = ProcIdle
    /\ covered = Null
    /\ doneBefore = {}
    /\ faults = 0
    /\ overlap = FALSE
    /\ track = FALSE
    /\ averages = {}
    /\ nat = NatIdle
    /\ req = ReqIdle
    /\ summary = [e \in Events |-> "down"]
    /\ other = [r \in {1, 2} |-> OtherIdle]
    /\ seasonRun = SeasonIdle
    /\ client = ClientIdle
    /\ bootstrapStatus = BootstrapInitial
    /\ boot = BootIdle
    /\ CalcCall

Next == SyncNext \/ ProcNext

\* with the second processor call
NextConcurrent == SyncNext \/ ProcNext \/ Proc2Next

Spec == Init /\ [][Next]_vars

\* the same steps, keeping the history of covering sync runs
SpecRerun == InitRerun /\ [][Next]_vars

\* the same steps with overlapping runs
SpecOverlap == InitOverlap /\ [][Next]_vars

\* two processor calls in progress together, between sync runs
SpecConcurrent == InitConcurrent /\ [][NextConcurrent]_vars

\* the processor with the client's fetch in steps; every step that can be
\* taken is eventually taken (the event loop runs each pending continuation
\* and timer), and an idle processor is called again
SpecFetch ==
    /\ InitFetch
    /\ [][FetchNext]_vars
    /\ WF_vars(FetchNext /\ summary' = summary)

\* sync runs with and without a season argument, two in progress together
SpecSeason == InitSeason /\ [][NextSeason]_vars

\* two processor calls while the provider corrects boxscores
SpecRevise == InitRevise /\ [][NextRevise]_vars

\* the pure functions on drawn arguments
SpecCalc == InitCalc /\ [][CalcNext]_vars

SpecDerive == InitDerive /\ [][NextDerive]_vars

\* one call of syncSeasonBothLeagues on drawn arguments, no call failing
SpecSeasonRun == InitSeasonRun /\ [][SeasonNext]_vars

\* the national averages builder over drawn rollups
SpecAverages == InitAverages /\ [][NatNext]_vars

(***************************************************************************)
(* Properties.                                                             *)
(***************************************************************************)
RowsOfGame(gameId) == {r \in stats : r.gameId = gameId}
RowsOf(gameId, teamId) == {r \in stats : r.gameId = gameId /\ r.teamId = teamId}
Quiescent == sync.pc = "idle" /\ proc.pc = "idle"

\* C1: exactly-once processing.  A run in which no game was skipped and no
\* call failed processes every game it selected; a game that a run processed
\* has statsProcessed = true from then on and exactly one TeamGameStats row
\* for each of its two teams; and no later run selects it (a run's selection
\* holds no game an earlier run processed).
C1_ExactlyOnce ==
    /\ \A id \in doneBefore \cup proc.processed :
         \E g \in games :
           /\ g.id = id
           /\ g.statsProcessed
           /\ Cardinality(RowsOf(id, g.homeTeamId)) = 1
           /\ Cardinality(RowsOf(id, g.awayTeamId)) = 1
           /\ Cardinality(RowsOfGame(id)) = 2
    /\ \A i \in 1..Len(proc.games) : proc.games[i].id \notin doneBefore
    /\ (proc.pc = "done" /\ proc.result.gamesSkipped = 0 /\ proc.result.errors = <<>>)
       => \A i \in 1..Len(proc.games) : proc.games[i].id \in proc.processed

\* a later run has selected and finished other work after an earlier run
\* processed a game that is still FINAL
C1_Witness ==
    /\ proc.pc = "done"
    /\ proc.result.gamesFound >= 1
    /\ \E g \in games : g.id \in doneBefore /\ g.status = "FINAL"

\* C2: statsProcessed of a stored game changes only from false to true, only
\* in the processor's game.update step, for the game the processor selected
\* (with status FINAL); a created game starts unprocessed.  Sync and processor
\* runs overlap.
C2_ProcessedOnlyByProcessor ==
    [][\A g2 \in games' :
         IF \E g \in games : g.id = g2.id
         THEN \A g \in games :
                (g.id = g2.id /\ g.statsProcessed # g2.statsProcessed)
                => /\ ~g.statsProcessed
                   /\ g2.statsProcessed
                   /\ proc.pc = "mark"
                   /\ ProcGame.id = g.id
                   /\ ProcGame.status = "FINAL"
                   /\ proc'.result.gamesProcessed = proc.result.gamesProcessed + 1
         ELSE ~g2.statsProcessed]_vars

\* a processed game that a sync run has upserted again since (its away score
\* is the scoreboard's, not the boxscore's), while a processor run is under way
C2_Witness ==
    /\ proc.pc # "idle"
    /\ sync.pc # "idle"
    /\ \E g \in games :
         g.statsProcessed /\ g.lastSyncedAt = "thisRun" /\ g.awayScore = Some(6)

\* C3: with no run in progress, every rollup's gamesPlayed is the number of
\* its team's TeamGameStats rows of that league and season, and every total
\* is the sum of the rows' column.
C3_RollupCorrect ==
    Quiescent =>
      \A r \in rollups :
        LET rows == {x \in stats : x.teamId = r.teamId /\ x.league = r.league
                                   /\ x.season = r.season}
        IN /\ r.gamesPlayed = Cardinality(rows)
           /\ \A c \in StatCols : r.totals[c] = SumCol(rows, c)
InSeq(x, q) == \E i \in 1..Len(q) : q[i] = x
RunDays(s) == s.start..(s.start + s.days - 1)
EventInRun(e, s) == EventInfo(e).day \in RunDays(s)
SyncedThisRun(e) ==
    \E g \in games : /\ g.league = EventInfo(e).league
                      /\ g.providerGameId = e
                      /\ g.lastSyncedAt = "thisRun"
\* the events the scoreboards of a league list over the dates of a run
Sightings(l, s) ==
    Cardinality({x \in RunDays(s) \X (1..Cardinality(Events)) :
                   x[2] <= Len(Scoreboard(l, x[1]))})
CleanRerunDone == sync.pc = "done" /\ sync.rerun /\ sync.stable /\ SyncClean(sync)
WithoutSyncTime(gameRows) == {[g EXCEPT !.lastSyncedAt = "earlier"] : g \in gameRows}

\* C4: a sync run over dates that an earlier run synced without a failure,
\* the upstream unchanged since, returns teamsInserted = 0 and
\* gamesInserted = 0 for both leagues, and counts every listed event once in
\* gamesUpdated and twice (home and away team) in teamsUpdated.
C4_RerunCounters ==
    CleanRerunDone =>
      \A l \in LeagueSet :
        /\ sync.result[l].teamsInserted = 0
        /\ sync.result[l].gamesInserted = 0
        /\ sync.result[l].gamesUpdated = Sightings(l, sync)
        /\ sync.result[l].teamsUpdated = 2 * Sightings(l, sync)

\* the second run over both days has returned: three games sighted again
C4_Witness ==
    /\ CleanRerunDone
    /\ sync.days = 2
    /\ sync.result["MENS"].gamesUpdated = 2
    /\ sync.result["WOMENS"].gamesUpdated = 1

\* C5: such a run leaves every Team, Game, TeamGameStats and
\* TeamSeasonRollup row as it was when the run started, apart from the
\* games' lastSyncedAt.
C5_RerunNoOp ==
    CleanRerunDone =>
      /\ teams = sync.before[1][1]
      /\ WithoutSyncTime(games) = WithoutSyncTime(sync.before[1][2])
      /\ stats = sync.before[1][3]
      /\ rollups = sync.before[1][4]

\* C6: upsertGame on a stored game keeps the row's id, league, season,
\* providerGameId, homeTeamId, awayTeamId and statsProcessed, sets dateTime,
\* neutralSite, status (FINAL for a completed event), homeScore, awayScore
\* and lastSyncedAt from the event, adds no row, and leaves every other
\* game as it was.
C6_UpsertFrame ==
    [][sync.pc = "game" =>
         \A g \in games :
           \E g2 \in games' :
             /\ g2.id = g.id
             /\ g2.league = g.league
             /\ g2.season = g.season
             /\ g2.providerGameId = g.providerGameId
             /\ g2.homeTeamId = g.homeTeamId
             /\ g2.awayTeamId = g.awayTeamId
             /\ g2.statsProcessed = g.statsProcessed
             /\ IF g \in gameFindUnique(games, SyncLeague, SyncSeason, SyncEvent.id)
                     /\ faults' = faults
                THEN /\ g2.dateTime = SyncEvent.date
                     /\ g2.neutralSite = SyncEvent.neutralSite
                     /\ g2.status = mapGameStatus(SyncEvent)
                     /\ SyncEvent.completed => g2.status = "FINAL"
                     /\ g2.homeScore = SyncEvent.home.score
                     /\ g2.awayScore = SyncEvent.away.score
                     /\ g2.lastSyncedAt = "thisRun"
                     /\ Cardinality(games') = Cardinality(games)
                ELSE g2 = g]_vars

\* a stored SCHEDULED game has been upserted and is FINAL now
C6_Witness ==
    /\ sync.existing # Null
    /\ sync.existing[1].status = "SCHEDULED"
    /\ \E g \in games : /\ g.id = sync.existing[1].id
                         /\ g.status = "FINAL"
                         /\ g.homeScore = Some(8)
                         /\ g.lastSyncedAt = "thisRun"

\* C7: after the boxscore fetch of a selected game the processor either
\* skips the game - gamesSkipped grows by one, gamesProcessed and errors stay,
\* no row of any table changes, the game stays unprocessed - or goes on to
\* write with a boxscore that has the statistics of both sides.
C7_SkipOnMissingData ==
    [][proc.pc = "fetch" =>
         /\ store' = store
         /\ proc'.result.gamesProcessed = proc.result.gamesProcessed
         /\ proc'.result.errors = proc.result.errors
         /\ \/ /\ proc'.result.gamesSkipped = proc.result.gamesSkipped + 1
               /\ proc'.pc \in {"fetch", "done"}
               /\ \A g \in games' : g.id = ProcGame.id => ~g.statsProcessed
            \/ /\ proc'.result.gamesSkipped = proc.result.gamesSkipped
               /\ proc'.pc = "home"
               /\ ~MissingData(proc'.boxscore)]_vars

\* a run has skipped both FINAL games and returned, nothing written
C7_Witness ==
    /\ proc.pc = "done"
    /\ proc.result.gamesSkipped = 2
    /\ proc.result.gamesProcessed = 0
    /\ stats = {}
    /\ \A i \in 1..Len(proc.games) :
         \E g \in games : g.id = proc.games[i].id /\ ~g.statsProcessed

\* C8: when a run returns, a game listed in its errors has no TeamGameStats
\* row and is unprocessed.
C8_NoPartialWrites ==
    proc.pc = "done" =>
      \A i \in 1..Len(proc.games) :
        InSeq(proc.games[i].providerGameId, proc.result.errors)
        => /\ RowsOfGame(proc.games[i].id) = {}
           /\ \A g \in games : g.id = proc.games[i].id => ~g.statsProcessed

\* C9: a failed scoreboard fetch of a (league, date) is appended to that
\* league's errors and to totalErrors and the run goes on; when the run
\* returns, every (league, date) of the range has been fetched, and every
\* event listed for a date without a date error, and itself without an event
\* error, has its game row written in this run.
C9_DateFailureIsolated ==
    [][/\ (sync.pc = "fetch" /\ faults' = faults + 1)
          => /\ sync'.result[SyncLeague].errors =
                  Append(sync.result[SyncLeague].errors, <<"date", SyncLeague, SyncDay>>)
             /\ sync'.totalErrors = Append(sync.totalErrors, <<"date", SyncLeague, SyncDay>>)
             /\ sync'.pc \in {"fetch", "done"}
       /\ (sync.pc # "done" /\ sync'.pc = "done")
          => /\ sync'.tried = LeagueSet \X RunDays(sync')
             /\ \A e \in Events :
                  (/\ EventInRun(e, sync')
                   /\ ~InSeq(<<"date", EventInfo(e).league, EventInfo(e).day>>,
                             sync'.totalErrors)
                   /\ ~InSeq(<<"event", e>>, sync'.result[EventInfo(e).league].errors))
                  => \E g \in games' : /\ g.league = EventInfo(e).league
                                        /\ g.providerGameId = e
                                        /\ g.lastSyncedAt = "thisRun"]_vars

\* the fetch of the men's day 1 failed; the run went on and wrote the women's
\* game of day 2
C9_Witness ==
    /\ sync.pc = "done"
    /\ sync.totalErrors = << <<"date", "MENS", 1>> >>
    /\ sync.tried = LeagueSet \X (1..2)
    /\ SyncedThisRun("E3")

\* C10: when a run in which no call failed returns, every well-formed event
\* the provider lists in the range has its game row written in this run,
\* whatever the other events of its date are.
C10_EventFailureIsolated ==
    (sync.pc = "done" /\ faults = 0) =>
      \A e \in Events :
        (EventInRun(e, sync) /\ upstream[e] # "bad") => SyncedThisRun(e)
ProcWriting ==
    proc.pc \in {"home", "away", "aggHome", "rollupHome", "aggAway", "rollupAway", "mark"}

\* C11: a storage call that throws while one selected game is processed is
\* caught: the game's id is appended to the run's errors, the run does not
\* throw, and it goes on to the next game of the selection (or returns after
\* the last one); a run returns only after its last selected game.
C11_GameFailureIsolated ==
    [][/\ (ProcWriting /\ faults' = faults + 1)
          => /\ proc'.result.errors = Append(proc.result.errors, ProcGame.providerGameId)
             /\ proc'.games = proc.games
             /\ IF proc.idx < Len(proc.games)
                THEN proc'.pc = "fetch" /\ proc'.idx = proc.idx + 1
                ELSE proc'.pc = "done"
       /\ (proc.pc \notin {"idle", "done"} /\ proc'.pc = "done")
          => proc.idx = Len(proc.games)
       /\ (proc.pc \notin {"idle", "thrown"}) => proc'.pc # "thrown"]_vars

\* the first selected game failed and the second was processed after it
C11_Witness ==
    /\ proc.pc = "done"
    /\ Len(proc.games) = 2
    /\ proc.result.errors = <<proc.games[1].providerGameId>>
    /\ proc.games[2].id \in proc.processed
\* C12: once two processor calls that were in progress together have both
\* returned, every game a call processed has exactly one TeamGameStats row
\* for each of its two teams, and recomputing any team's rollup from the
\* stored TeamGameStats rows changes nothing.
C12_ConcurrentRuns ==
    (sync.pc = "idle" /\ proc.pc = "idle" /\ proc2.pc = "idle") =>
      /\ \A id \in doneBefore :
           \E g \in games : /\ g.id = id
                             /\ Cardinality(RowsOf(id, g.homeTeamId)) = 1
                             /\ Cardinality(RowsOf(id, g.awayTeamId)) = 1
      /\ \A r \in rollups :
           updateTeamSeasonRollup(rollups, stats, r.teamId, r.league, r.season) = rollups

\* the rollups of a league and season that count at least one game
Qualifying(league, season) ==
    {r \in rollups : r.league = league /\ r.season = season /\ r.gamesPlayed > 0}

RECURSIVE SumOver(_, _)
\* the sum of f[r] over the rows r of S
SumOver(f, S) ==
    IF S = {} THEN 0
    ELSE LET r == CHOOSE x \in S : TRUE IN f[r] + SumOver(f, S \ {r})

C14_NoRowWithoutGames ==
    /\ \A a \in averages : Qualifying(a.league, a.season) # {}
    /\ nat.pc = "done" =>
         \A l \in LeagueSet :
           Qualifying(l, nat.season[1]) = {} => nat.result[l] = Null

\* a build finished with a result for one league and null for the other,
\* whose only rollups of the season count no game
C14_Witness ==
    /\ nat.pc = "done"
    /\ \E l, m \in LeagueSet :
         /\ nat.result[l] # Null
         /\ nat.result[m] = Null
         /\ Qualifying(m, nat.season[1]) = {}
         /\ \E r \in rollups : r.league = m /\ r.season = nat.season[1]
         /\ \A a \in averages : a.league # m

\* C15: one fetch makes at most MAX_RETRIES attempts; a failed attempt with
\* attempts remaining is followed by a sleep of attempt x 1000 ms and the
\* next attempt; a successful attempt returns at once and no attempt follows
\* it; the error is thrown only by the failure of attempt MAX_RETRIES and is
\* that attempt's; and every fetch in progress returns or throws.
C15_BoundedRetry ==
    /\ [](req.pc # "idle" =>
            /\ req.attempt \in 1..MAX_RETRIES
            /\ req.slept = [i \in 1..(req.attempt - 1) |-> i * 1000])
    /\ [][req' # req =>
          /\ (req.pc = "attempt" /\ req'.pc # "returned" /\ req.attempt < MAX_RETRIES)
             => (req'.pc = "backoff" /\ req'.attempt = req.attempt)
          /\ req.pc = "backoff"
             => /\ req'.pc = "attempt"
                /\ req'.attempt = req.attempt + 1
                /\ req'.slept = Append(req.slept, req.attempt * 1000)
          /\ (req.pc = "attempt" /\ summary[req.event] # "down")
             => (req'.pc = "returned" /\ req'.attempt = req.attempt)
          /\ req.pc = "returned" => req'.pc = "idle"
          /\ req'.pc = "thrown"
             => /\ req.pc = "attempt"
                /\ req.attempt = MAX_RETRIES
                /\ summary[req.event] = "down"
                /\ req'.lastError \in {Some(err) : err \in AttemptErrors}]_vars
    /\ (req.pc \in {"attempt", "backoff"}) ~> (req.pc \in {"returned", "thrown"})

\* a fetch threw after its third attempt, having slept 1000 and 2000 ms
C15_Witness ==
    /\ req.pc = "thrown"
    /\ req.attempt = MAX_RETRIES
    /\ req.slept = <<1000, 2000>>

\* C16: when the boxscore fetch of a game has thrown after its last retry,
\* the processor's continuation appends that game to the errors of its
\* result.
C16_FetchErrorSurfaced ==
    [][(proc.pc = "fetching" /\ req.pc = "thrown" /\ proc' # proc)
         => proc'.result.errors = Append(proc.result.errors, ProcGame.providerGameId)]_vars

\* the stored game of a provider event, if any
GamesOfEvent(e) == {g \in games : g.providerGameId = e}

C18_SelectionAndOrder ==
    [][/\ (proc.pc = "idle" /\ proc'.pc \notin {"idle", "thrown"})
          => /\ {proc'.games[i] : i \in 1..Len(proc'.games)}
                  = {g \in games : g.status = "FINAL" /\ g.statsProcessed = FALSE}
             /\ \A i, j \in 1..Len(proc'.games) :
                  /\ i # j => proc'.games[i] # proc'.games[j]
                  /\ i < j => DateLE(proc'.games[i].dateTime, proc'.games[j].dateTime)
             /\ proc'.idx = 1
       /\ (proc.pc \notin {"idle", "done", "thrown"})
          => /\ proc'.games = proc.games
             /\ proc'.idx \in {proc.idx, proc.idx + 1}
             /\ proc'.idx = proc.idx + 1 => proc'.pc = "fetch"
             /\ proc'.pc = "done" => proc.idx = Len(proc.games)
             /\ proc.pc = "fetch" => proc' \in {proc, [proc EXCEPT !.pc = "fetching"]}]_vars

\* a call went through two selected games of different dates while a third
\* stored game was not selected
C18_Witness ==
    /\ proc.pc = "done"
    /\ Len(proc.games) = 2
    /\ proc.games[1].dateTime # proc.games[2].dateTime
    /\ \E g \in games : ~InSeq(g, proc.games) /\ g.status # "FINAL"

\* C19: no two Team rows share (league, season, providerTeamId) and no two
\* Game rows share (league, season, providerGameId), whatever the sync runs
\* in progress have done; an upsert of a key that has a row leaves the
\* number of rows as it is and writes the sighting into that row.
C19_NaturalKeys ==
    /\ [](/\ \A t1, t2 \in teams :
               TeamKey(t2, t1.league, t1.season, t1.providerTeamId) => t1 = t2
           /\ \A g1, g2 \in games :
               GameKey(g2, g1.league, g1.season, g1.providerGameId) => g1 = g2)
    /\ [][\A r \in SyncRuns :
            LET o == other[r] IN
            /\ (o.pc = "game" /\ other'[r].pc = "idle"
                 /\ gameFindUnique(games, o.league, o.season[1], o.event[1].id) # {})
               => /\ Cardinality(games') = Cardinality(games)
                  /\ \A g \in gameFindUnique(games', o.league, o.season[1], o.event[1].id) :
                       g.status = mapGameStatus(o.event[1]) /\ g.homeScore = o.event[1].home.score
            /\ (o.pc = "homeTeam" /\ other'[r].pc = "awayTeam"
                 /\ teamFindUnique(teams, o.league, o.season[1], o.event[1].home.id) # {})
               => Cardinality(teams') = Cardinality(teams)]_vars

\* a run that inserted the home team of its event is about to upsert the
\* game, and the game's row is there already: the other run wrote it in
\* between
C19_Witness ==
    \E r \in SyncRuns :
      /\ other[r].pc = "game"
      /\ other[r].homeTeam[1].inserted
      /\ gameFindUnique(games, other[r].league, other[r].season[1], other[r].event[1].id) # {}

\* C20: the home team and the away team a Game row refers to are Team rows
\* of the game's league and season, whether the run that wrote the game
\* derived the season from the event's date or was given it.
C20_TeamsOfGameSeason ==
    \A g \in games :
      \A id \in {g.homeTeamId, g.awayTeamId} :
        \E t \in teams : t.id = id /\ t.league = g.league /\ t.season = g.season

\* the same event is stored once under the season of its date and once
\* under a season a run was given
C20_Witness ==
    \E g1, g2 \in games :
      /\ g1.providerGameId = g2.providerGameId
      /\ g1.season = deriveSeasonFromDate(g1.dateTime)
      /\ g2.season # deriveSeasonFromDate(g2.dateTime)
      /\ g2.season \in SeasonArgs

\* the six offensive figures of a TeamGameStats row, and its six allowed
\* figures under the offensive names
OffFigures(r) ==
    [c \in {"2ptm", "2pta", "3ptm", "3pta", "Ftm", "Fta"} |-> r.fig["off" \o c]]
AllowedFigures(r) ==
    [c \in {"2ptm", "2pta", "3ptm", "3pta", "Ftm", "Fta"} |-> r.fig["def" \o c \o "Allowed"]]

\* C21: when no processor call is in progress, for every game that has both
\* its TeamGameStats rows the home row's allowed figures are the away row's
\* offensive figures and the away row's allowed figures are the home row's
\* offensive figures.
C21_MirroredDefence ==
    (proc.pc = "idle" /\ proc2.pc = "idle") =>
      \A g \in games :
        \A h \in RowsOf(g.id, g.homeTeamId), a \in RowsOf(g.id, g.awayTeamId) :
          AllowedFigures(h) = OffFigures(a) /\ AllowedFigures(a) = OffFigures(h)

\* the block of boxscore.teams whose team is the one the header declares
\* for a side, if the header declares one and a block has it
DeclaredBlock(response, side) ==
    LET cs == {i \in 1..Len(response.competitors) : response.competitors[i].homeAway = side}
        c == response.competitors[CHOOSE i \in cs : \A j \in cs : i <= j]
        bs == {i \in 1..Len(response.teams) : response.teams[i].teamId = c.teamId}
    IN IF cs = {} \/ c.teamId = Null \/ bs = {} THEN Null
       ELSE Some(response.teams[CHOOSE i \in bs : \A j \in bs : i <= j])

\* C22: parseGameSummary of a body with two team blocks returns for each
\* side the block of the team the header declares for that side, whatever
\* the order of the blocks, and the positional block (the second for home,
\* the first for away) only for a side the header does not resolve.
C22_RoleResolution ==
    (calc.op = "parseGameSummary" /\ calc.out # Null /\ Len(calc.arg.teams) >= 2) =>
      LET r == calc.arg
          out == calc.out[1][1]
          Side(b) == [id |-> b.teamId, statistics |-> extractTeamStats(b.statistics)]
      IN /\ out.home = Side(IF DeclaredBlock(r, "home") # Null
                             THEN DeclaredBlock(r, "home")[1] ELSE r.teams[2])
         /\ out.away = Side(IF DeclaredBlock(r, "away") # Null
                             THEN DeclaredBlock(r, "away")[1] ELSE r.teams[1])

\* a body listing the home team's block first was parsed, and the home side
\* of the result is that first block
C22_Witness ==
    /\ calc.op = "parseGameSummary" /\ calc.out # Null
    /\ Len(calc.arg.teams) = 2
    /\ DeclaredBlock(calc.arg, "home") = Some(calc.arg.teams[1])
    /\ DeclaredBlock(calc.arg, "away") = Some(calc.arg.teams[2])
    /\ calc.arg.competitors[1].id # calc.arg.teams[1].teamId[1]
    /\ calc.out[1][1].home.id = calc.arg.teams[1].teamId

\* the status names that, in upper case, contain POSTPONED, and CANCEL
PostponedNames == {"STATUS_POSTPONED", "status_postponed", "STATUS_POSTPONED_THEN_CANCELED"}
CancelNames == {"STATUS_CANCELED", "STATUS_CANCELLED", "STATUS_POSTPONED_THEN_CANCELED"}

\* C23: mapGameStatus gives FINAL for a completed event or state post,
\* IN_PROGRESS for state in, SCHEDULED for state pre, and for any other
\* state POSTPONED when the name contains POSTPONED, else CANCELLED when it
\* contains CANCEL, else SCHEDULED.
C23_StatusMapping ==
    (calc.op = "mapGameStatus" /\ calc.out # Null) =>
      LET e == calc.arg
          out == calc.out[1]
      IN /\ (e.completed \/ e.statusState = "post") => out = "FINAL"
         /\ (~e.completed /\ e.statusState = "in") => out = "IN_PROGRESS"
         /\ (~e.completed /\ e.statusState = "pre") => out = "SCHEDULED"
         /\ (~e.completed /\ e.statusState \notin {"post", "in", "pre"}) =>
              /\ e.statusName \in PostponedNames => out = "POSTPONED"
              /\ e.statusName \in CancelNames \ PostponedNames => out = "CANCELLED"
              /\ e.statusName \notin PostponedNames \cup CancelNames => out = "SCHEDULED"

\* an event in a state the provider does not list, whose name speaks of a
\* cancellation, was mapped
C23_Witness ==
    /\ calc.op = "mapGameStatus" /\ calc.out # Null
    /\ ~calc.arg.completed /\ calc.arg.statusState = "delayed"
    /\ calc.arg.statusName = "STATUS_CANCELED" /\ calc.out = Some("CANCELLED")

\* C24: the season clock's label for a date starts with the year before the
\* date's for the months up to April and with the date's year for every
\* later month (the months from the cutoff on and the off-season months
\* before it alike), and its second part is the last two digits of the
\* first part plus one.
C24_SeasonLabelRule ==
    (calc.op = "getCurrentSeason" /\ calc.out # Null) =>
      LET d == calc.arg
          out == calc.out[1]
      IN /\ d.month <= 4 => out[1] = d.year - 1
         /\ d.month >= 5 => out[1] = d.year
         /\ out[2] \in 0..99
         /\ (out[1] + 1 - out[2]) % 100 = 0

\* the label of an off-season month (May to September) was computed
C24_Witness ==
    /\ calc.op = "getCurrentSeason" /\ calc.out # Null
    /\ calc.arg.month = 7
    /\ calc.out = Some(<<2025, 26>>)

\* C25: the season the synchronizer derives for an event's date is the
\* season the season clock gives for the same date, in every month.
C25_SeasonBoundaryConsistent ==
    (calc.op = "deriveSeasonFromDate" /\ calc.out # Null) =>
      calc.out[1] = getCurrentSeason(calc.arg)

\* the drawn season arguments of the form YYYY-YY with YY = (YYYY + 1) mod
\* 100, each with its YYYY
LabelYears ==
    {<<<<"2", "0", "2", "5", "-", "2", "6">>, 2025>>,
     <<<<"2", "0", "2", "4", "-", "2", "5">>, 2024>>,
     <<<<"1", "9", "9", "9", "-", "0", "0">>, 1999>>,
     <<<<"2", "0", "9", "9", "-", "0", "0">>, 2099>>}

\* C26: a full-season sync of a well-formed label YYYY-YY, called without
\* dates, does not throw; its range starts on 1 November YYYY and ends on 15
\* April YYYY + 1, the end after the start, and when it is done it has
\* fetched the scoreboard of every date of the range, for both leagues.
C26_DefaultWindow ==
    \A ly \in LabelYears :
      (/\ seasonRun.pc # "idle" /\ seasonRun.season = ly[1]
       /\ seasonRun.startISO = Null /\ seasonRun.endISO = Null) =>
        LET first == DaysFromCivil(ly[2], 11, 1)
            last == DaysFromCivil(ly[2] + 1, 4, 15)
        IN /\ seasonRun.pc # "thrown"
           /\ seasonRun.start = first
           /\ seasonRun.start + seasonRun.days - 1 = last
           /\ last > first
           /\ seasonRun.fetched \subseteq LeagueSet \X (first..last)
           /\ seasonRun.pc = "done" => seasonRun.fetched = LeagueSet \X (first..last)

\* the date a call's range starts and ends on, as its arguments and the
\* season's default window give them
CallStart(r, year) ==
    IF r.startISO # Null THEN r.startISO[1] ELSE [year |-> year, month |-> 11, day |-> 1]
CallEnd(r, year) ==
    IF r.endISO # Null THEN r.endISO[1] ELSE [year |-> year + 1, month |-> 4, day |-> 15]

\* a call the validation has to reject
InvalidCall(r) ==
    \/ \A ly \in LabelYears : r.season # ly[1]
    \/ r.startISO # Null /\ r.startISO[1].month \notin 1..12
    \/ r.endISO # Null /\ r.endISO[1].month \notin 1..12
    \/ \E ly \in LabelYears :
         /\ r.season = ly[1]
         /\ ~DateLE(CallStart(r, ly[2]), CallEnd(r, ly[2]))

\* C27: a call of syncSeasonBothLeagues with a season not of the form
\* YYYY-YY, with a start or end date that does not parse, or with an end
\* before its start throws; the throwing step fetches no scoreboard and
\* writes nothing, and a call that has thrown has fetched nothing.
C27_InvalidArgumentsThrow ==
    /\ [](seasonRun.pc = "thrown" => seasonRun.fetched = {} /\ seasonRun.error # "")
    /\ [][(seasonRun.pc = "idle" /\ seasonRun'.pc # "idle" /\ InvalidCall(seasonRun')) =>
            /\ seasonRun'.pc = "thrown"
            /\ seasonRun'.fetched = {}
            /\ UNCHANGED store]_vars

\* a call with a well-formed season and two dates that parse, the end before
\* the start, has thrown
C27_Witness ==
    /\ seasonRun.pc = "thrown"
    /\ seasonRun.season = <<"2", "0", "2", "5", "-", "2", "6">>
    /\ seasonRun.startISO = Some([year |-> 2025, month |-> 11, day |-> 3])
    /\ seasonRun.endISO = Some([year |-> 2025, month |-> 11, day |-> 1])
    /\ seasonRun.error = "End date must be >= start date"

\* C28: the step that completes the processing of a game sets the stored
\* row's statsProcessed, and sets each of homeScore and awayScore to the
\* boxscore's points only where the stored score was null; a stored score
\* that was not null is left as it was.
C28_ScoresFilledWhereNull ==
    [][(proc.pc = "mark" /\ proc'.result.gamesProcessed = proc.result.gamesProcessed + 1) =>
         \A g \in games : g.id = ProcGame.id =>
           \E gn \in games' :
             /\ gn.id = g.id
             /\ gn.statsProcessed
             /\ gn.homeScore = Coalesce(g.homeScore, Some(ProcHomeStats.points))
             /\ gn.awayScore = Coalesce(g.awayScore, Some(ProcAwayStats.points))]_vars

\* C29: the three adjustments of a team's expectation are the mean of the
\* team's offensive and the opponent's defensive differential, times 1 for
\* two-pointers, 1.5 for three-pointers and 0.5 for free throws, and the
\* expected points are the national points per team plus the three; all six
\* differentials at +10 and a baseline of 75 give 10, 15, 5 and 105, all at
\* 0 give the baseline.
C29_WeightedAdjustments ==
    (calc.op = "calculateTeamExpected" /\ calc.out # Null) =>
      LET t == calc.arg.teamDiffs
          o == calc.arg.opponentDiffs
          out == calc.out[1]
          two == Frac(t.off2ptDiff.num + o.def2ptDiff.num, 2)
          three == Frac(3 * (t.off3ptDiff.num + o.def3ptDiff.num), 4)
          ft == Frac(t.offFtDiff.num + o.defFtDiff.num, 4)
          read == <<t.off2ptDiff, o.def2ptDiff, t.off3ptDiff, o.def3ptDiff,
                    t.offFtDiff, o.defFtDiff>>
      IN /\ FracEq(out.adjustments.twoPoint, two)
         /\ FracEq(out.adjustments.threePoint, three)
         /\ FracEq(out.adjustments.freeThrow, ft)
         /\ FracEq(out.expectedPoints,
                   FracAdd(calc.arg.natPointsPerTeam, FracAdd(two, FracAdd(three, ft))))
         /\ (\A j \in 1..6 : read[j] = Whole(10)) =>
              /\ FracEq(out.adjustments.twoPoint, Whole(10))
              /\ FracEq(out.adjustments.threePoint, Whole(15))
              /\ FracEq(out.adjustments.freeThrow, Whole(5))
              /\ FracEq(out.expectedPoints, Whole(105))
         /\ (\A j \in 1..6 : read[j] = Whole(0)) =>
              FracEq(out.expectedPoints, calc.arg.natPointsPerTeam)

\* the expectation of a team with +10 offence against an opponent allowing
\* +10 was computed, the figures it does not read being 7
C29_Witness ==
    /\ calc.op = "calculateTeamExpected" /\ calc.out # Null
    /\ calc.arg.teamDiffs.off2ptDiff = Whole(10) /\ calc.arg.teamDiffs.off3ptDiff = Whole(10)
    /\ calc.arg.teamDiffs.offFtDiff = Whole(10) /\ calc.arg.teamDiffs.def2ptDiff = Whole(7)
    /\ calc.arg.opponentDiffs.def2ptDiff = Whole(10)
    /\ calc.arg.opponentDiffs.def3ptDiff = Whole(10)
    /\ calc.arg.opponentDiffs.defFtDiff = Whole(10)
    /\ FracEq(calc.out[1].expectedPoints, Whole(105))

\* a team's expectation from the differentials d of its offence and e of the
\* other team's defence
ExpectedFrom(d, e, base) ==
    FracAdd(base,
            FracAdd(FracHalf(FracAdd(d.off2ptDiff, e.def2ptDiff)),
                    FracAdd(FracScale(3, FracHalf(FracHalf(FracAdd(d.off3ptDiff,
                                                                   e.def3ptDiff)))),
                            FracHalf(FracHalf(FracAdd(d.offFtDiff, e.defFtDiff))))))

SameSide(x, y) ==
    /\ FracEq(x.expectedPoints, y.expectedPoints)
    /\ FracEq(x.adjustments.twoPoint, y.adjustments.twoPoint)
    /\ FracEq(x.adjustments.threePoint, y.adjustments.threePoint)
    /\ FracEq(x.adjustments.freeThrow, y.adjustments.freeThrow)
    /\ x.differentials = y.differentials

\* C30: in a game's breakdown team 1's expected points come from team 1's
\* offensive and team 2's defensive differentials, team 2's from team 2's
\* offensive and team 1's defensive ones, and the expected total is their
\* sum; the call with the teams swapped gives the two breakdowns swapped and
\* the same total; two teams at the national averages each get the baseline
\* and the total is twice the baseline.
C30_GameTotalSymmetric ==
    (calc.op = "calculateGameTotal" /\ calc.out # Null) =>
      LET a == calc.arg
          out == calc.out[1]
          base == a.nationals.natPointsPgPerTeam
          swapped == calculateGameTotal([a EXCEPT !.team1Stats = a.team2Stats,
                                                  !.team1Name = a.team2Name,
                                                  !.team2Stats = a.team1Stats,
                                                  !.team2Name = a.team1Name])
      IN /\ FracEq(out.team1.expectedPoints,
                   ExpectedFrom(out.team1.differentials, out.team2.differentials, base))
         /\ FracEq(out.team2.expectedPoints,
                   ExpectedFrom(out.team2.differentials, out.team1.differentials, base))
         /\ FracEq(out.expectedTotal,
                   FracAdd(out.team1.expectedPoints, out.team2.expectedPoints))
         /\ SameSide(swapped.team1, out.team2) /\ swapped.team1.name = out.team2.name
         /\ SameSide(swapped.team2, out.team1) /\ swapped.team2.name = out.team1.name
         /\ FracEq(swapped.expectedTotal, out.expectedTotal)
         /\ (a.team1Stats = a.nationals.pg /\ a.team2Stats = a.nationals.pg) =>
              /\ FracEq(out.team1.expectedPoints, base)
              /\ FracEq(out.team2.expectedPoints, base)
              /\ FracEq(out.expectedTotal, FracScale(2, base))

\* the total of a team above the average in offence against one above the
\* average in what it allows was computed: 92.5 and 75
C30_Witness ==
    /\ calc.op = "calculateGameTotal" /\ calc.out # Null
    /\ calc.arg.team1Stats = GoodOffense /\ calc.arg.team2Stats = BadDefense
    /\ FracEq(calc.out[1].team1.expectedPoints, Frac(185, 2))
    /\ FracEq(calc.out[1].team2.expectedPoints, Whole(75))
    /\ FracEq(calc.out[1].expectedTotal, Frac(335, 2))

\* the made and the attempted column of each of the six categories, with the
\* differential of the category
DiffCategories ==
    {<<"off2ptm", "off2pta", "off2ptDiff">>, <<"off3ptm", "off3pta", "off3ptDiff">>,
     <<"offFtm", "offFta", "offFtDiff">>,
     <<"def2ptmAllowed", "def2ptaAllowed", "def2ptDiff">>,
     <<"def3ptmAllowed", "def3ptaAllowed", "def3ptDiff">>,
     <<"defFtmAllowed", "defFtaAllowed", "defFtDiff">>}

\* C31: each of the six differentials is the team's makes plus attempts of
\* its category minus the national makes plus attempts of that category; a
\* team at the national averages has all six at 0, and a category in which
\* the team is below the national volume has a negative differential.
C31_Differentials ==
    (calc.op = "calculateDifferentials" /\ calc.out # Null) =>
      LET t == calc.arg.teamStats
          n == calc.arg.nationals.pg
          out == calc.out[1]
      IN /\ \A k \in DiffCategories :
              /\ FracEq(out[k[3]],
                        Whole((t[k[1]].num + t[k[2]].num) - (n[k[1]].num + n[k[2]].num)))
              /\ (t[k[1]].num + t[k[2]].num < n[k[1]].num + n[k[2]].num)
                   => out[k[3]].num * out[k[3]].den < 0
         /\ t = n => \A k \in DiffCategories : FracEq(out[k[3]], Whole(0))

\* the differentials of the tests' team with good defence were computed
\* against the tests' averages: -10 and -4 in what it allows
C31_Witness ==
    /\ calc.op = "calculateDifferentials" /\ calc.out # Null
    /\ calc.arg.nationals = TestNationals
    /\ calc.arg.teamStats["def2ptmAllowed"] = Whole(15)
    /\ FracEq(calc.out[1].def2ptDiff, Whole(-10))
    /\ FracEq(calc.out[1].def3ptDiff, Whole(-4))
    /\ FracEq(calc.out[1].off2ptDiff, Whole(0))

\* C32: the profit of a bet is 0 on a push, minus the stake on a loss, the
\* stake times odds / 100 on a win at positive odds, and the stake times
\* 100 / |odds| on a win at negative odds.
C32_BetProfit ==
    (calc.op = "calculateBetProfit" /\ calc.out # Null) =>
      LET stake == calc.arg.stake
          odds == calc.arg.odds.num
          out == calc.out[1]
      IN /\ calc.arg.result = "push" => FracEq(out, Whole(0))
         /\ calc.arg.result = "loss" => FracEq(out, Frac(0 - stake.num, stake.den))
         /\ (calc.arg.result = "win" /\ odds > 0)
              => FracEq(out, Frac(stake.num * odds, stake.den * 100))
         /\ (calc.arg.result = "win" /\ odds < 0)
              => FracEq(out, Frac(stake.num * 100, stake.den * (0 - odds)))

\* the profit of a winning 100 at -200 was computed: 50
C32_Witness ==
    /\ calc.op = "calculateBetProfit" /\ calc.out # Null
    /\ calc.arg = [stake |-> Whole(100), odds |-> Whole(-200), result |-> "win"]
    /\ FracEq(calc.out[1], Whole(50))

\* C33: derive2ptFromFg gives the field goals minus the three-pointers, made
\* and attempted, for every input; and every TeamGameStats row the processor
\* writes holds as its own side's two-point makes and attempts that side's
\* boxscore field goals minus its three-pointers.
C33_Derived2pt ==
    /\ []((calc.op = "derive2ptFromFg" /\ calc.out # Null) =>
            calc.out[1] = [twoPtm |-> calc.arg.fgm - calc.arg.threePtm,
                           twoPta |-> calc.arg.fga - calc.arg.threePta])
    /\ [][\A r \in stats' \ stats :
            LET own == IF r.teamId = ProcGame.homeTeamId THEN ProcHomeStats
                       ELSE ProcAwayStats
            IN /\ proc.pc \in {"home", "away"}
               /\ r.gameId = ProcGame.id
               /\ r.teamId = IF proc.pc = "home" THEN ProcGame.homeTeamId
                             ELSE ProcGame.awayTeamId
               /\ r.fig.off2ptm = own.field_goals_made - own.three_points_made
               /\ r.fig.off2pta = own.field_goals_att - own.three_points_att]_vars

\* the tests' call was made, and the home row of a game was rewritten from
\* a corrected boxscore: 4/6 field goals with 2/3 three-pointers
C33_Witness ==
    /\ calc.arg = [fgm |-> 30, fga |-> 60, threePtm |-> 8, threePta |-> 20]
    /\ calc.out = Some([twoPtm |-> 22, twoPta |-> 40])
    /\ faults = 1
    /\ \E r \in stats : r.fig.off2ptm = 2 /\ r.fig.off2pta = 3 /\ r.fig.off3ptm = 2
    /\ \E r \in stats : r.fig.off2ptm = 2 /\ r.fig.off2pta = 3 /\ r.fig.off3ptm = 0

\* C34: of any two requests started through the one client, by concurrent
\* runs or as successive calls or retries of one run, the later starts at
\* least the minimum interval (RATE_LIMIT_MIN_MS) after the earlier.
C34_RequestPacing ==
    (client.prevStart # Null /\ client.lastStart # Null) =>
        client.lastStart[1] - client.prevStart[1] >= RATE_LIMIT_MIN_MS

\* C35: in every reachable state, whatever sync and processor runs came
\* before and however the provider changed an event's status between them, a
\* game whose statsProcessed is true has status FINAL.
C35_ProcessedIsFinal ==
    \A g \in games : g.statsProcessed => g.status = "FINAL"

\* the games of team t that are marked as processed
ProcessedGamesOf(t) ==
    {g \in games : g.statsProcessed /\ t \in {g.homeTeamId, g.awayTeamId}}

\* C36: the processed flag is set after both TeamGameStats rows are written
\* and both rollups are recomputed: in every reachable state a game with
\* statsProcessed = true has a row for its home team and one for its away
\* team, and each of the two teams' rollups has counted it, so a team's
\* rollup counts at least as many games as the team has processed games.
C36_ProcessedAfterWrites ==
    \A g \in games : g.statsProcessed =>
        \A t \in {g.homeTeamId, g.awayTeamId} :
            /\ \E r \in stats : r.gameId = g.id /\ r.teamId = t
            /\ \E ro \in rollups :
                 /\ ro.teamId = t
                 /\ ro.gamesPlayed >= Cardinality(ProcessedGamesOf(t))

\* C37: on every return of processCompletedGames, gamesFound = gamesProcessed
\* + gamesSkipped + the number of entries of errors: every selected game is
\* in exactly one of the three outcomes.  (While the loop runs, the games
\* before the present one are accounted for in the same way.)
C37_ResultAccounting ==
    LET accounted == proc.result.gamesProcessed + proc.result.gamesSkipped
                         + Len(proc.result.errors)
    IN /\ proc.pc = "done" => proc.result.gamesFound = accounted
       /\ proc.pc \notin {"idle", "done", "thrown"} =>
            /\ proc.result.gamesFound = Len(proc.games)
            /\ accounted = proc.idx - 1

\* a call about to return with two games found, one of them processed and
\* the other one failed
C37_Witness ==
    /\ proc.pc = "done"
    /\ proc.result.gamesFound = 2
    /\ proc.result.gamesProcessed = 1
    /\ proc.result.gamesSkipped = 0
    /\ Len(proc.result.errors) = 1

\* C38: for a boxscore with two distinct team blocks, parseGameSummary never
\* returns one block (its team id and statistics) as both the home side and
\* the away side, whichever of the two matches by declared team id succeed.
C38_SidesDistinct ==
    (/\ calc.op = "parseGameSummary" /\ calc.out # Null
     /\ Len(calc.arg.teams) = 2
     /\ calc.arg.teams[1] # calc.arg.teams[2]) =>
        /\ calc.out[1] # Null
        /\ calc.out[1][1].home # calc.out[1][1].away

\* C39: when the sync of a bootstrap run returns a non-empty error list, the
\* status after the run has a non-null lastError.
C39_FailureVisible ==
    (/\ boot.pc = "ended"
     /\ boot.returned # Null
     /\ boot.returned[1] # <<>>) => bootstrapStatus.lastError # Null

\* the attempts of the run so far all threw
AllThrew(outcomes) == \A i \in 1..Len(outcomes) : outcomes[i] = "threw"

\* C40: a started bootstrap run sets isRunning and increments runCount once;
\* it makes at most 3 sync attempts and none after the first that does not
\* throw; it always ends, with isRunning = false, lastSuccessAt updated if an
\* attempt succeeded, and lastErrorAt / lastError set only if all attempts
\* threw.
C40_RunLifecycle ==
    /\ [](/\ boot.pc \in {"attempt", "sync", "sleep", "failed", "finally"} =>
               bootstrapStatus.isRunning /\ bootstrapStatus.runCount = 1
          /\ Len(boot.outcomes) <= 3 /\ boot.attempt <= 3
          /\ AllThrew(SubSeq(boot.outcomes, 1, Len(boot.outcomes) - 1))
          /\ (bootstrapStatus.lastErrorAt # Null \/ bootstrapStatus.lastError # Null) =>
               Len(boot.outcomes) = 3 /\ AllThrew(boot.outcomes)
          /\ bootstrapStatus.lastSuccessAt # Null <=>
               (boot.outcomes # <<>> /\ ~AllThrew(boot.outcomes))
          /\ boot.pc = "ended" =>
               /\ ~bootstrapStatus.isRunning /\ bootstrapStatus.runCount = 1
               /\ boot.outcomes # <<>>
               /\ AllThrew(boot.outcomes) =>
                    /\ Len(boot.outcomes) = 3
                    /\ bootstrapStatus.lastErrorAt # Null
                    /\ bootstrapStatus.lastError # Null)
    /\ [][/\ bootstrapStatus'.runCount # bootstrapStatus.runCount =>
               /\ boot.pc = "idle"
               /\ bootstrapStatus'.runCount = bootstrapStatus.runCount + 1
               /\ bootstrapStatus'.isRunning
          /\ (sync.pc = "idle" /\ sync'.pc # "idle") =>
               /\ boot.pc = "attempt"
               /\ Len(boot.outcomes) < 3 /\ AllThrew(boot.outcomes)]_vars
    /\ (boot.pc # "idle") ~> (boot.pc = "ended" /\ ~bootstrapStatus.isRunning)

\* a run ended whose third attempt was the first not to throw
C40_Witness ==
    /\ boot.pc = "ended"
    /\ boot.outcomes = <<"threw", "threw", "returned">>
    /\ bootstrapStatus.lastSuccessAt # Null
    /\ bootstrapStatus.lastError = Null
    /\ ~bootstrapStatus.isRunning

=============================================================================
